---- MODULE Spec2Model ----
(***************************************************************************)
(* Certificate plugin of FreeIPA: the federated certificate search         *)
(* (cert_find, ipaserver/plugins/cert.py) and the certificate request      *)
(* pipeline (cert_request, ipaserver/plugins/cert.py and the legacy        *)
(* ipalib/plugins/cert.py).                                                *)
(***************************************************************************)
EXTENDS Integers, Sequences, FiniteSets, TLC

VARIABLES
    find,             \* the cert_find call in progress or just returned
    caEnabled,        \* ca_is_enabled: some server has the CA service
    usercertificate,  \* directory: entry -> values of its usercertificate
    raCerts,          \* CA backend: the certificates of its record store
    entries,          \* directory: the principals that have an entry
    revoked,          \* CA backend: the revoked serials, with their reason
    call              \* the cert_request call in progress

vars == <<find, caEnabled, usercertificate, raCerts, entries, revoked, call>>

\* what a certificate search leaves alone
searchFrame == <<caEnabled, usercertificate, raCerts, entries, revoked, call>>

(***************************************************************************)
(* Bounds                                                                  *)
(***************************************************************************)
\* number of distinct (issuer, serial) keys the sub-results of the merge
\* loop are drawn from
MaxFoldKeys == 2
\* number of certificates the CA backend may hold when cert_find runs
MaxRaCerts == 3
\* number of usercertificate values the directory may hold when cert_find runs
MaxDirCerts == 4
\* number of certificates the CA backend issues
MaxIssued == 1

(***************************************************************************)
(* Python values                                                           *)
(***************************************************************************)
\* sizelimit=None (no size limit handed to a sub-search)
NoLimit == -1

(***************************************************************************)
(* collections.OrderedDict: a sequence of [key, obj] items in insertion    *)
(* order.  An obj is the set of the field names it carries (dict.update    *)
(* adds the fields of the other dict).                                     *)
(***************************************************************************)
OdEmpty == << >>

OdKeys(od) == {od[i].key : i \in 1..Len(od)}

OdHas(od, k) == \E i \in 1..Len(od) : od[i].key = k

OdGet(od, k) == od[CHOOSE i \in 1..Len(od) : od[i].key = k].obj

OdDel(od, k) == SelectSeq(od, LAMBDA e : e.key # k)

OdSet(od, k, v) ==
    IF OdHas(od, k)
    THEN [i \in 1..Len(od) |->
             IF od[i].key = k THEN [key |-> k, obj |-> v] ELSE od[i]]
    ELSE Append(od, [key |-> k, obj |-> v])

(***************************************************************************)
(* cert_find.execute: the merge loop                                       *)
(***************************************************************************)
\* a sub-search returns (sub_result, sub_truncated, sub_complete)
SubResult(r, t, c) == [result |-> r, truncated |-> t, complete |-> c]

\* for key in tuple(result): if key not in sub_result: del result[key]
RECURSIVE Prune(_, _, _)
Prune(result, keys, sub_result) ==
    IF keys = << >> THEN result
    ELSE Prune(IF ~OdHas(sub_result, Head(keys).key)
               THEN OdDel(result, Head(keys).key) ELSE result,
               Tail(keys), sub_result)

\* mutant: a key that the running map lacks is always added
MergeItemAlwaysAdd(result, item, complete) ==
    IF OdHas(result, item.key)
    THEN OdSet(result, item.key, OdGet(result, item.key) \cup item.obj)
    ELSE OdSet(result, item.key, item.obj)

\* mutant: a key that the running map lacks is never added
MergeItemNeverAdd(result, item, complete) ==
    IF OdHas(result, item.key)
    THEN OdSet(result, item.key, OdGet(result, item.key) \cup item.obj)
    ELSE result

\* body of "for key, sub_obj in six.iteritems(sub_result)"
MergeItem(result, item, complete) ==
    IF OdHas(result, item.key)
    THEN OdSet(result, item.key, OdGet(result, item.key) \cup item.obj)
    ELSE IF complete THEN result
         ELSE OdSet(result, item.key, item.obj)

RECURSIVE MergeItems(_, _, _)
MergeItems(result, items, complete) ==
    IF items = << >> THEN result
    ELSE MergeItems(MergeItem(result, Head(items), complete),
                    Tail(items), complete)

\* mutant: the running complete flag is not carried to the next iteration
LoopBodyForgetComplete(acc, sub) ==
    [result    |-> MergeItems(IF sub.complete
                              THEN Prune(acc.result, acc.result, sub.result)
                              ELSE acc.result,
                              sub.result, acc.complete),
     truncated |-> acc.truncated \/ sub.truncated,
     complete  |-> sub.complete,
     sizelimit |-> IF sub.complete THEN NoLimit ELSE acc.sizelimit]

\* mutant: the size limit survives a complete sub-search
LoopBodyKeepLimit(acc, sub) ==
    [result    |-> MergeItems(IF sub.complete
                              THEN Prune(acc.result, acc.result, sub.result)
                              ELSE acc.result,
                              sub.result, acc.complete),
     truncated |-> acc.truncated \/ sub.truncated,
     complete  |-> acc.complete \/ sub.complete,
     sizelimit |-> acc.sizelimit]

\* one iteration of "for sub_search in (...)", after the sub-search returned
LoopBody(acc, sub) ==
    [result    |-> MergeItems(IF sub.complete
                              THEN Prune(acc.result, acc.result, sub.result)
                              ELSE acc.result,
                              sub.result, acc.complete),
     truncated |-> acc.truncated \/ sub.truncated,
     complete  |-> acc.complete \/ sub.complete,
     sizelimit |-> IF sub.complete THEN NoLimit ELSE acc.sizelimit]

\* result = OrderedDict(); truncated = False; complete = False
LoopStart(sizelimit) ==
    [result |-> OdEmpty, truncated |-> FALSE, complete |-> FALSE,
     sizelimit |-> sizelimit]

\* what a finished call leaves behind: the sub-results, the accumulator after
\* each iteration (accs[1] is the start), and the returned dict
FindReturn(opts, subs, accs) ==
    [state     |-> "returned",
     opts      |-> opts,
     subs      |-> subs,
     accs      |-> accs,
     result    |-> accs[Len(accs)].result,
     count     |-> Len(accs[Len(accs)].result),
     truncated |-> accs[Len(accs)].truncated]

NoCall == [state |-> "none"]

\* no cert_request is in progress
IdleCall == [pc |-> "idle"]

(***************************************************************************)
(* Certificates, principals and the two backends                           *)
(***************************************************************************)
\* a DER blob that x509.load_certificate decodes
Cert(issuer, serial, subject) ==
    [valid |-> TRUE, issuer |-> issuer, serial |-> serial, subject |-> subject]

\* a DER blob that x509.load_certificate rejects
Garbage == [valid |-> FALSE, issuer |-> "", serial |-> 0, subject |-> ""]

\* kerberos.Principal: (service name, host or user name); one realm
Princ(service, name) == [service |-> service, name |-> name]

IsUser(p) == p.service = ""

IsHost(p) == p.service = "host"

IsService(p) == ~IsUser(p) /\ ~IsHost(p)

Alice == Princ("", "alice")

HostH1 == Princ("host", "h1")

HttpH1 == Princ("HTTP", "h1")

\* the owner objects of certificates: for name in ('user', 'host', 'service')
OwnerNames == <<"user", "host", "service">>

\* the owner object an entry belongs to (its objectclass and container)
EntryOwner(p) ==
    IF IsUser(p) THEN "user" ELSE IF IsHost(p) THEN "host" ELSE "service"

\* the primary key of an entry: uid, fqdn or krbprincipalname
EntryPkey(p) == IF IsService(p) THEN p ELSE p.name

\* the CA objects of ca_find / ca_show: the IPA CA and one lightweight CA
IpaCa == [cn |-> "ipa", ipacasubjectdn |-> "CN=CA", ipacaid |-> "id-ipa"]

SubCa == [cn |-> "sub", ipacasubjectdn |-> "CN=Sub", ipacaid |-> "id-sub"]

CaObjs == {IpaCa, SubCa}

CaNamed(cn) == CHOOSE ca \in CaObjs : ca.cn = cn

\* mutant: every name is the name of a CA
CaExistsAny(cn) == TRUE

\* ca_show(cn) finds the CA
CaExists(cn) == \E ca \in CaObjs : ca.cn = cn

\* the certificates the CA backend may hold: serial i, issued by the IPA CA
\* or (serial 3) by an authority of the backend that IPA does not track
RaCert(i) ==
    Cert(IF i = 3 THEN "CN=Untracked" ELSE "CN=CA", i,
         IF i % 2 = 1 THEN "h1" ELSE "alice")

\* a certificate of an external CA cached in the directory
ForeignCert == Cert("CN=Ext", 1, "alice")

\* the usercertificate values the directory may hold, in the order they
\* were stored
DirPlacement(i) ==
    IF i = 1 THEN [owner |-> HostH1, cert |-> RaCert(1)]
    ELSE IF i = 2 THEN [owner |-> Alice, cert |-> RaCert(2)]
    ELSE IF i = 3 THEN [owner |-> Alice, cert |-> ForeignCert]
    ELSE IF i = 4 THEN [owner |-> HostH1, cert |-> Garbage]
    ELSE [owner |-> HttpH1, cert |-> RaCert(i - 4)]

\* the entries of the directory, in the order a search returns them
EntryOrder == <<Alice, HostH1, HttpH1>>

RECURSIVE PlacedCerts(_, _)
PlacedCerts(p, n) ==
    IF n = 0 THEN << >>
    ELSE PlacedCerts(p, n - 1) \o
         (IF DirPlacement(n).owner = p THEN <<DirPlacement(n).cert>>
          ELSE << >>)

\* a set of naturals as the ascending sequence of its elements
RECURSIVE Ascending(_)
Ascending(S) ==
    IF S = {} THEN << >>
    ELSE LET m == CHOOSE x \in S : \A y \in S : x <= y
         IN  <<m>> \o Ascending(S \ {m})

\* ra.find(ra_options): the records of the store that match the issuer,
\* subject and serial-number options, ascending by serial number; a date or
\* revocation-reason option selects any part of them; at most sizelimit
\* records are returned
RaMatches(store, ra) ==
    {c \in store :
        /\ \A v \in ra.issuer : c.issuer = v
        /\ \A v \in ra.subject : c.subject = v
        /\ \A v \in ra.min_serial_number : c.serial >= v
        /\ \A v \in ra.max_serial_number : c.serial <= v}

RaLimit(seq, ra) ==
    IF ra.sizelimit = {} THEN seq
    ELSE LET n == CHOOSE v \in ra.sizelimit : TRUE
         IN  IF Len(seq) > n THEN SubSeq(seq, 1, n) ELSE seq

RaFind(store, ra) ==
    LET matches == RaMatches(store, ra)
        picks   == IF ra.others = {} THEN {matches} ELSE SUBSET matches
        BySerial(S) ==
            LET order == Ascending({c.serial : c \in S})
            IN  [i \in 1..Len(order) |->
                    CHOOSE c \in S : c.serial = order[i]]
    IN  {RaLimit(BySerial(S), ra) : S \in picks}

\* ldap.make_filter_from_attr and ldap.combine_filters(filters, MATCH_ALL):
\* a filter is [attr, value, rule]; an entry matches the combination when it
\* matches every filter
MATCH_ALL == "&"

MATCH_NONE == "!"

MakeFilter(attr, value, rule) == [attr |-> attr, value |-> value, rule |-> rule]

EntryMatches(p, certs, f) ==
    IF f.attr = "objectclass" THEN EntryOwner(p) = f.value
    ELSE IF f.attr = "usercertificate"
    THEN IF f.value = {} THEN Len(certs) > 0
         ELSE \E i \in 1..Len(certs) : certs[i] \in f.value
    ELSE /\ EntryOwner(p) = f.attr
         /\ IF f.rule = MATCH_ALL THEN EntryPkey(p) = f.value
            ELSE EntryPkey(p) # f.value

\* ldap.find_entries(filter, size_limit): the matching entries; more matches
\* than a positive size limit truncate the result; no match raises
\* EmptyResult
FindEntries(dir, filters, size_limit) ==
    LET hits == SelectSeq(EntryOrder,
                    LAMBDA p : /\ p \in DOMAIN dir
                               /\ \A i \in 1..Len(filters) :
                                      EntryMatches(p, dir[p], filters[i]))
    IN  IF hits = << >> THEN [empty |-> TRUE, entries |-> << >>,
                              truncated |-> FALSE]
        ELSE IF size_limit > 0 /\ Len(hits) > size_limit
        THEN [empty |-> FALSE, entries |-> SubSeq(hits, 1, size_limit),
              truncated |-> TRUE]
        ELSE [empty |-> FALSE, entries |-> hits, truncated |-> FALSE]

(***************************************************************************)
(* cert_find: the three sub-searches                                       *)
(***************************************************************************)
\* the CA-specific options _ca_search hands to the backend
RaNames ==
    <<"revocation_reason", "issuer", "subject",
      "min_serial_number", "max_serial_number",
      "validnotafter_from", "validnotafter_to",
      "validnotbefore_from", "validnotbefore_to",
      "issuedon_from", "issuedon_to",
      "revokedon_from", "revokedon_to">>

\* an option is the set of its values: empty when it was not supplied
Supplied(opt) == opt # {}

ValueOf(opt) == CHOOSE v \in opt : TRUE

\* _get_cert_key: (issuer DN, serial number), or ValueError for a blob that
\* does not load
GetCertKey(cert) ==
    IF ~cert.valid THEN [ok |-> FALSE, key |-> <<"", 0>>]
    ELSE [ok |-> TRUE, key |-> <<cert.issuer, cert.serial>>]

\* the fields _parse adds for a loaded certificate
ParseFields(full) ==
    {"subject", "issuer", "serial_number", "valid_not_before",
     "valid_not_after"} \cup
    (IF full THEN {"md5_fingerprint", "sha1_fingerprint"} ELSE {})

\* _get_cert_obj
GetCertObj(all, raw, pkey_only) ==
    LET full == ~pkey_only /\ all
    IN  (IF full THEN {"certificate"} ELSE {}) \cup
        (IF ~raw THEN ParseFields(full) ELSE {})

\* mutant: the inline sub-search never reports complete
CertSearchNeverComplete(opts) ==
    IF ~Supplied(opts.certificate) THEN SubResult(OdEmpty, FALSE, FALSE)
    ELSE LET k == GetCertKey(ValueOf(opts.certificate))
         IN  IF ~k.ok THEN SubResult(OdEmpty, TRUE, FALSE)
             ELSE SubResult(
                    <<[key |-> k.key,
                       obj |-> GetCertObj(opts.all, opts.raw, opts.pkey_only)]>>,
                    FALSE, FALSE)

\* mutant: a certificate that fails to decode is not reported complete
CertSearchDecodeIncomplete(opts) ==
    IF ~Supplied(opts.certificate) THEN SubResult(OdEmpty, FALSE, FALSE)
    ELSE LET k == GetCertKey(ValueOf(opts.certificate))
         IN  IF ~k.ok THEN SubResult(OdEmpty, TRUE, FALSE)
             ELSE SubResult(
                    <<[key |-> k.key,
                       obj |-> GetCertObj(opts.all, opts.raw, opts.pkey_only)]>>,
                    FALSE, TRUE)

\* mutant: a certificate that fails to decode is passed over in silence
CertSearchDecodeSilent(opts) ==
    IF ~Supplied(opts.certificate) THEN SubResult(OdEmpty, FALSE, FALSE)
    ELSE LET k == GetCertKey(ValueOf(opts.certificate))
         IN  IF ~k.ok THEN SubResult(OdEmpty, FALSE, TRUE)
             ELSE SubResult(
                    <<[key |-> k.key,
                       obj |-> GetCertObj(opts.all, opts.raw, opts.pkey_only)]>>,
                    FALSE, TRUE)

\* _cert_search
CertSearch(opts) ==
    IF ~Supplied(opts.certificate) THEN SubResult(OdEmpty, FALSE, FALSE)
    ELSE LET k == GetCertKey(ValueOf(opts.certificate))
         IN  IF ~k.ok THEN SubResult(OdEmpty, TRUE, TRUE)
             ELSE SubResult(
                    <<[key |-> k.key,
                       obj |-> GetCertObj(opts.all, opts.raw, opts.pkey_only)]>>,
                    FALSE, TRUE)

\* _ca_search, lines 1175-1196: the options handed to ra.find
RaOptions(opts, sizelimit) ==
    [issuer            |-> opts.issuer,
     subject           |-> opts.subject,
     min_serial_number |-> opts.min_serial_number,
     max_serial_number |-> opts.max_serial_number,
     others            |-> opts.others,
     sizelimit         |-> IF sizelimit # NoLimit /\ sizelimit # 0
                           THEN {sizelimit} ELSE {},
     exactly           |-> IF opts.exactly THEN {TRUE} ELSE {}]

\* mutant: only the filters of the backend count
RaOptionsNonEmptyFiltersOnly(ra) ==
    \/ Supplied(ra.issuer) \/ Supplied(ra.subject)
    \/ Supplied(ra.min_serial_number) \/ Supplied(ra.max_serial_number)
    \/ Supplied(ra.others)

\* bool(ra_options)
RaOptionsNonEmpty(ra) ==
    \/ Supplied(ra.issuer) \/ Supplied(ra.subject)
    \/ Supplied(ra.min_serial_number) \/ Supplied(ra.max_serial_number)
    \/ Supplied(ra.others)
    \/ Supplied(ra.sizelimit) \/ Supplied(ra.exactly)

\* the object _ca_search builds for one record of the backend
CaObjFields(all, raw, pkey_only) ==
    IF pkey_only THEN {"serial_number", "cacn"}
    ELSE {"serial_number", "subject", "issuer", "status", "cacn"} \cup
         (IF all THEN {"certificate"} ELSE {}) \cup
         (IF ~raw THEN {"revoked"} ELSE {}) \cup
         (IF ~raw /\ all THEN ParseFields(TRUE) ELSE {})

\* for ra_obj in ra.find(ra_options): records of an issuer that is no CA
\* object are skipped
RECURSIVE CaCollect(_, _, _)
CaCollect(result, ra_objs, fields) ==
    IF ra_objs = << >> THEN result
    ELSE LET c == Head(ra_objs)
         IN  CaCollect(
                IF \E ca \in CaObjs : ca.ipacasubjectdn = c.issuer
                THEN OdSet(result, <<c.issuer, c.serial>>, fields)
                ELSE result,
                Tail(ra_objs), fields)

\* mutant: without a backend option the backend's answer is not used
CaSearchSkipUnfiltered(opts, sizelimit, enabled, ra_objs) ==
    LET ra       == RaOptions(opts, sizelimit)
        complete == RaOptionsNonEmpty(ra)
    IN  IF ~enabled
        THEN [raised |-> complete,
              sub    |-> SubResult(OdEmpty, FALSE, complete)]
        ELSE [raised |-> FALSE,
              sub    |-> SubResult(
                           IF ~complete THEN OdEmpty
                           ELSE CaCollect(OdEmpty, ra_objs,
                               CaObjFields(opts.all, opts.raw, opts.pkey_only)),
                           FALSE, complete)]

\* _ca_search, given what ra.find answered; raised when the CA is not
\* configured and a backend option was supplied
CaSearch(opts, sizelimit, enabled, ra_objs) ==
    LET ra       == RaOptions(opts, sizelimit)
        complete == RaOptionsNonEmpty(ra)
    IN  IF ~enabled
        THEN [raised |-> complete,
              sub    |-> SubResult(OdEmpty, FALSE, complete)]
        ELSE [raised |-> FALSE,
              sub    |-> SubResult(
                           CaCollect(OdEmpty, ra_objs,
                               CaObjFields(opts.all, opts.raw, opts.pkey_only)),
                           FALSE, complete)]

\* _ldap_search, lines 1248-1268: the owner filters, in the order of the
\* owner objects and of the prefixes '' and 'no_'
RECURSIVE OwnerFilters(_, _, _)
OwnerFilters(filters, opts, n) ==
    IF n > 2 * Len(OwnerNames) THEN filters
    ELSE LET owner  == OwnerNames[(n + 1) \div 2]
             prefix == IF n % 2 = 1 THEN "" ELSE "no_"
             given  == {o \in opts.owners :
                           o.prefix = prefix /\ o.owner = owner}
             oc     == MakeFilter("objectclass", owner, MATCH_ALL)
         IN  IF given = {} THEN OwnerFilters(filters, opts, n + 1)
             ELSE OwnerFilters(
                    (IF \E i \in 1..Len(filters) : filters[i] = oc
                     THEN filters ELSE Append(filters, oc))
                    \o <<MakeFilter(owner, ValueOf(given).value,
                            IF prefix = "" THEN MATCH_ALL ELSE MATCH_NONE)>>,
                    opts, n + 1)

\* the owner field a certificate object gets from one entry
OwnerField(p, raw) == IF raw THEN "owner" ELSE "owner_" \o EntryOwner(p)

\* for entry in entries: for cert in entry.get(attr, [])
RECURSIVE LdapCerts(_, _, _, _)
LdapCerts(acc, p, certs, opts) ==
    IF certs = << >> THEN acc
    ELSE LET k == GetCertKey(Head(certs))
         IN  IF ~k.ok
             THEN LdapCerts([acc EXCEPT !.truncated = TRUE],
                            p, Tail(certs), opts)
             ELSE LET obj  == IF OdHas(acc.result, k.key)
                              THEN OdGet(acc.result, k.key)
                              ELSE GetCertObj(opts.all, opts.raw,
                                              opts.pkey_only)
                      own  == IF ~opts.pkey_only /\
                                 (opts.all \/ ~opts.no_members)
                              THEN {OwnerField(p, opts.raw)} ELSE {}
                  IN  LdapCerts(
                        [acc EXCEPT !.result =
                            OdSet(acc.result, k.key, obj \cup own)],
                        p, Tail(certs), opts)

RECURSIVE LdapEntries(_, _, _, _)
LdapEntries(acc, hits, dir, opts) ==
    IF hits = << >> THEN acc
    ELSE LdapEntries(LdapCerts(acc, Head(hits), dir[Head(hits)], opts),
                     Tail(hits), dir, opts)

\* _ldap_search
LdapSearch(opts, sizelimit, dir) ==
    LET owners   == OwnerFilters(<< >>, opts, 1)
        complete == owners # << >>
        filters  == Append(owners,
                       MakeFilter("usercertificate", opts.certificate,
                                  MATCH_ALL))
        found    == FindEntries(dir, filters, sizelimit)
        acc      == LdapEntries(
                       [result |-> OdEmpty, truncated |-> found.truncated],
                       found.entries, dir, opts)
    IN  SubResult(acc.result, acc.truncated, complete)

(***************************************************************************)
(* The merge loop over arbitrary sub-results                               *)
(***************************************************************************)
FoldIssuer(i) == IF i = 1 THEN "CN=A" ELSE IF i = 2 THEN "CN=B" ELSE "CN=C"

FoldKeys == {<<FoldIssuer(i), i>> : i \in 1..MaxFoldKeys}

\* injective sequences over a set: the possible key orders of an OrderedDict
RECURSIVE Orders(_)
Orders(S) ==
    IF S = {} THEN {<< >>}
    ELSE UNION {{<<k>> \o o : o \in Orders(S \ {k})} : k \in S}

\* the OrderedDicts a sub-search of the given kind can return over FoldKeys
FoldDicts(fields) ==
    UNION {{[i \in 1..Len(o) |-> [key |-> o[i], obj |-> fields]] :
               o \in Orders(K)} : K \in SUBSET FoldKeys}

FoldSubs(fields) ==
    {SubResult(r, t, c) : r \in FoldDicts(fields), t \in BOOLEAN, c \in BOOLEAN}

FoldInit ==
    /\ find = NoCall
    /\ caEnabled = TRUE
    /\ usercertificate = [p \in {} |-> << >>]
    /\ raCerts = {}
    /\ entries = {}
    /\ revoked = {}
    /\ call = IdleCall

FoldExecute ==
    /\ find.state = "none"
    /\ \E s1 \in FoldSubs({"certificate"}),
       s2 \in FoldSubs({"subject", "status"}),
       s3 \in FoldSubs({"owner"}),
       sizelimit \in {NoLimit, 1} :
        LET a0 == LoopStart(sizelimit)
            a1 == LoopBody(a0, s1)
            a2 == LoopBody(a1, s2)
            a3 == LoopBody(a2, s3)
        IN  find' = FindReturn("fold", <<s1, s2, s3>>, <<a0, a1, a2, a3>>)
    /\ UNCHANGED searchFrame

\* the response is serialized and the request-scoped result discarded
FindDone ==
    /\ find.state \in {"returned", "raised"}
    /\ find' = NoCall
    /\ UNCHANGED searchFrame

FoldNext == FoldExecute \/ FindDone

FoldSpec == FoldInit /\ [][FoldNext]_vars

(***************************************************************************)
(* cert_find.execute over the two backends                                 *)
(***************************************************************************)
NoRaFilter ==
    [issuer |-> {}, subject |-> {}, min_serial_number |-> {},
     max_serial_number |-> {}, others |-> {}]

\* the CA-specific filters a call is made with
RaFilterChoices ==
    {NoRaFilter,
     [NoRaFilter EXCEPT !.issuer = {"CN=CA"}],
     [NoRaFilter EXCEPT !.issuer = {"CN=Sub"}],
     [NoRaFilter EXCEPT !.subject = {"h1"}],
     [NoRaFilter EXCEPT !.min_serial_number = {2}],
     [NoRaFilter EXCEPT !.max_serial_number = {1}],
     [NoRaFilter EXCEPT !.others = {"validnotafter_from"}],
     [NoRaFilter EXCEPT !.others = {"revocation_reason"}]}

\* the owner filters a call is made with
OwnerChoices ==
    {{},
     {[prefix |-> "", owner |-> "host", value |-> "h1"]},
     {[prefix |-> "no_", owner |-> "user", value |-> "alice"]}}

FindOptions ==
    {[certificate       |-> cert,
      issuer            |-> ra.issuer,
      subject           |-> ra.subject,
      min_serial_number |-> ra.min_serial_number,
      max_serial_number |-> ra.max_serial_number,
      others            |-> ra.others,
      exactly           |-> exactly,
      sizelimit         |-> sizelimit,
      cacn              |-> cacn,
      criteria          |-> {},
      owners            |-> owners,
      all               |-> all,
      raw               |-> FALSE,
      pkey_only         |-> FALSE,
      no_members        |-> TRUE] :
        cert \in {{}, {Garbage}, {RaCert(1)}, {ForeignCert}},
        ra \in RaFilterChoices,
        exactly \in BOOLEAN,
        sizelimit \in {NoLimit, 0, 1},
        cacn \in {{}, {"ipa"}, {"nosuch"}},
        owners \in OwnerChoices,
        all \in BOOLEAN}

FindRaise(opts, subs, accs, error) ==
    [state |-> "raised", opts |-> opts, subs |-> subs, accs |-> accs,
     error |-> error]

\* lines 1328-1337: the cacn option becomes the issuer option
WithCaIssuer(opts) ==
    IF Supplied(opts.cacn) /\ ~Supplied(opts.issuer)
    THEN [opts EXCEPT !.issuer = {CaNamed(ValueOf(opts.cacn)).ipacasubjectdn}]
    ELSE opts

FindInit ==
    /\ find = NoCall
    /\ caEnabled \in BOOLEAN
    /\ \E n \in 0..MaxRaCerts : raCerts = {RaCert(i) : i \in 1..n}
    /\ \E n \in 0..MaxDirCerts :
           usercertificate =
               [p \in {EntryOrder[i] : i \in 1..Len(EntryOrder)} |->
                   PlacedCerts(p, n)]
    /\ entries = {EntryOrder[i] : i \in 1..Len(EntryOrder)}
    /\ revoked = {}
    /\ call = IdleCall

\* cert_find.execute with a free-text criteria: nothing is searched
CertFindCriteria ==
    /\ find.state = "none"
    /\ \E o \in FindOptions :
        /\ ~Supplied(o.certificate) /\ o.owners = {} /\ ~o.exactly /\ ~o.all
        /\ o.sizelimit = NoLimit
        /\ LET opts == [o EXCEPT !.criteria = {"text"}]
           IN  IF Supplied(opts.cacn) /\ ~CaExists(ValueOf(opts.cacn))
               THEN find' = FindRaise(opts, << >>, << >>, "NotFound")
               ELSE find' = FindReturn(opts, << >>,
                                       <<LoopStart(opts.sizelimit)>>)
    /\ UNCHANGED searchFrame

\* cert_find.execute
CertFind ==
    /\ find.state = "none"
    /\ \E opts \in FindOptions :
        IF Supplied(opts.cacn) /\ ~CaExists(ValueOf(opts.cacn))
        THEN find' = FindRaise(opts, << >>, << >>, "NotFound")
        ELSE IF /\ Supplied(opts.cacn) /\ Supplied(opts.issuer)
                /\ CaNamed(ValueOf(opts.cacn)).ipacasubjectdn
                       # ValueOf(opts.issuer)
        THEN find' = FindReturn(opts, << >>, <<LoopStart(opts.sizelimit)>>)
        ELSE
          LET o  == WithCaIssuer(opts)
              a0 == LoopStart(o.sizelimit)
              s1 == CertSearch(o)
              a1 == LoopBody(a0, s1)
          IN  \E ra_objs \in
                   IF caEnabled
                   THEN RaFind(raCerts, RaOptions(o, a1.sizelimit))
                   ELSE {<< >>} :
                LET ca == CaSearch(o, a1.sizelimit, caEnabled, ra_objs)
                    s2 == ca.sub
                    a2 == LoopBody(a1, s2)
                    s3 == LdapSearch(o, a2.sizelimit, usercertificate)
                    a3 == LoopBody(a2, s3)
                IN  IF ca.raised
                    THEN find' = FindRaise(opts, <<s1>>, <<a0, a1>>,
                                           "NotFound")
                    ELSE find' = FindReturn(opts, <<s1, s2, s3>>,
                                            <<a0, a1, a2, a3>>)
    /\ UNCHANGED searchFrame

FindNext == CertFind \/ CertFindCriteria \/ FindDone

FindSpec == FindInit /\ [][FindNext]_vars

(***************************************************************************)
(* The directory and the callers of cert_request                           *)
(***************************************************************************)
USER == 0

HOST == 1

SERVICE == 2

\* mutant: every principal is taken for a service
PrincipalTypeService(p) == SERVICE

\* lines 553-558: principal.is_user, principal.is_host
PrincipalType(p) ==
    IF IsUser(p) THEN USER ELSE IF IsHost(p) THEN HOST ELSE SERVICE

\* unicode(principal): service/name@REALM, as its components
PrincipalString(p) == <<p.service, p.name, "REALM">>

\* str.lower() on the names in use
Lower(s) ==
    IF s = "H1" THEN "h1" ELSE IF s = "Alice" THEN "alice" ELSE s

Bob == Princ("", "bob")

HostH2 == Princ("host", "h2")

HostH3 == Princ("host", "h3")

HttpH2 == Princ("HTTP", "h2")

HttpH3 == Princ("HTTP", "h3")

Principals == {Alice, Bob, HostH1, HostH2, HostH3, HttpH1, HttpH2, HttpH3}

\* the entries the directory starts with: bob, host h3 and the services on
\* h1 and h3 have none
InitialEntries == {Alice, HostH1, HostH2, HttpH2}

\* the mail attribute of an entry
Mail(p) == IF p = Alice THEN {"alice@example.com"} ELSE {}

\* the certificate host h1 starts with, known to the CA backend
InitialCerts == {RaCert(1)}

\* the serial number the CA backend gives the next certificate
NextSerial ==
    1 + (CHOOSE m \in {c.serial : c \in raCerts} :
            \A c \in raCerts : c.serial <= m)

(***************************************************************************)
(* Certificate signing requests                                            *)
(***************************************************************************)
\* the general names x509.process_othernames yields
DNSName(v) == [type |-> "DNSName", value |-> v, name |-> << >>]

RFC822Name(v) == [type |-> "RFC822Name", value |-> v, name |-> << >>]

IPAddress(v) == [type |-> "IPAddress", value |-> v, name |-> << >>]

KRB5PrincipalName(p) ==
    [type |-> "KRB5PrincipalName", value |-> "", name |-> PrincipalString(p)]

UPN(p) == [type |-> "UPN", value |-> "", name |-> PrincipalString(p)]

\* a PKCS#10 request that loads: the Common Names and the email addresses of
\* its subject, and the general names of its subject alternative name
\* extension (none when the request has no such extension)
Csr(cns, emails, san) ==
    [valid |-> TRUE, cns |-> cns, emails |-> emails, san |-> san]

\* a request that pkcs10.load_certificate_request rejects
BadCsr == [valid |-> FALSE, cns |-> << >>, emails |-> {}, san |-> << >>]

HostSans ==
    {<<DNSName("h1")>>, <<DNSName("h2")>>, <<DNSName("h3")>>,
     <<DNSName("h2"), DNSName("h1")>>,
     <<KRB5PrincipalName(HostH1)>>, <<KRB5PrincipalName(HttpH1)>>,
     <<UPN(Alice)>>,
     <<RFC822Name("alice@example.com")>>,
     <<IPAddress("10.0.0.1")>>,
     <<DNSName("h2"), IPAddress("10.0.0.1")>>}

UserSans ==
    {<<RFC822Name("alice@example.com")>>, <<RFC822Name("eve@example.com")>>,
     <<UPN(Alice)>>, <<KRB5PrincipalName(Bob)>>, <<DNSName("h1")>>}

CsrChoices ==
    {BadCsr, Csr(<< >>, {}, << >>)}
    \cup {Csr(cns, {}, << >>) :
             cns \in {<<"h1">>, <<"H1">>, <<"alice">>, <<"Alice">>,
                      <<"alice", "h1">>}}
    \cup {Csr(<<"alice">>, e, << >>) :
             e \in {{"alice@example.com"}, {"eve@example.com"}}}
    \cup {Csr(<<"h1">>, {}, san) : san \in HostSans}
    \cup {Csr(<<"alice">>, {}, san) : san \in UserSans}

(***************************************************************************)
(* cert_request.execute (ipaserver/plugins/cert.py), statement by          *)
(* statement; call.pc is the position in the handler                       *)
(***************************************************************************)
\* the state of a call that has just been entered
NewCall(op, bind, principal, add, csr, cacn) ==
    [pc        |-> "begin",
     op        |-> op,
     bind      |-> bind,
     principal |-> principal,
     add       |-> add,
     csr       |-> csr,
     cacn      |-> cacn,
     error     |-> "",         \* the error the call raised
     at        |-> "",         \* the position it was raised at
     access    |-> {},         \* check_access: operations asked, with answer
     acl       |-> {},         \* acl_evaluate: principals asked, with answer
     canwrite  |-> {},         \* ldap.can_write: entries asked, with answer
     bypass    |-> FALSE,      \* bypass_caacl
     i         |-> 1,          \* index into generalnames
     created   |-> {},         \* entries added by the call
     issued    |-> {},         \* the certificate the CA backend issued
     stored    |-> FALSE,      \* the certificate was written to the entry
     status    |-> 0,          \* the HTTP status of a failure of the backend
     storeflag |-> {},         \* ipacertprofilestoreissued, once read
     mods      |-> {},         \* the attributes handed to *_mod, and how
     service   |-> << >>,      \* legacy: usercertificate of the entry read
     revokes   |-> {},         \* legacy: serials handed to cert_revoke
     tolerated |-> FALSE,      \* legacy: the backend lacks get or revoke
     before    |-> usercertificate,
     revbefore |-> revoked]

\* raise
Fail(c, kind) == [c EXCEPT !.pc = "done", !.error = kind, !.at = c.pc]

Goto(c, pc) == [c EXCEPT !.pc = pc]

Asked(c, op, ok) == [c EXCEPT !.access = @ \cup {[op |-> op, ok |-> ok]}]

\* the answers the policy engine or the directory may give for a principal:
\* the one already given during this call, else any
Answers(asked, p) ==
    IF \E a \in asked : a.principal = p
    THEN {a.ok : a \in {x \in asked : x.principal = p}}
    ELSE BOOLEAN

requestFrame == <<find, caEnabled>>

\* lines 523-537: ca_enabled_check() and ca_show(ca)
ReqBegin ==
    /\ call.pc = "idle"
    /\ \E bind \in {Alice, HostH1},
          principal \in {Alice, Bob, HostH1, HostH3, HttpH1},
          add \in BOOLEAN,
          csr \in CsrChoices,
          cacn \in {"ipa", "nosuch"} :
        LET c == NewCall("cert_request", bind, principal, add, csr, cacn)
        IN  call' = IF ~caEnabled \/ ~CaExists(cacn)
                    THEN Fail(c, "NotFound")
                    ELSE Goto(c, "bind")
    /\ UNCHANGED <<requestFrame, usercertificate, raCerts, entries, revoked>>

\* mutant: nobody is asked for the permission
OtherNonHostNoCheck(bind, principal) == FALSE

\* mutant: a host that asks for another principal is checked as well
OtherNonHostOrHost(bind, principal) ==
    PrincipalString(bind) # PrincipalString(principal)

\* lines 571-572, 598-599: the caller is neither the principal itself nor
\* a host
OtherNonHost(bind, principal) ==
    /\ PrincipalString(bind) # PrincipalString(principal)
    /\ PrincipalType(bind) # HOST

\* lines 571-574: self.check_access()
ReqBindCheck ==
    /\ call.pc = "bind"
    /\ IF OtherNonHost(call.bind, call.principal)
       THEN \E ok \in BOOLEAN :
              LET c == Asked(call, "request certificate", ok)
              IN  call' = IF ok THEN Goto(c, "caacl") ELSE Fail(c, "ACIError")
       ELSE call' = Goto(call, "caacl")
    /\ UNCHANGED <<requestFrame, usercertificate, raCerts, entries, revoked>>

\* kw.get('profile_id', self.Backend.ra.DEFAULT_PROFILE)
DEFAULT_PROFILE == "caIPAserviceCert"

\* mutant: a false verdict of the policy engine does not stop the request
CaaclCheckIgnoreVerdict(c, p, ok, next) ==
    Goto([c EXCEPT !.acl = @ \cup
             {[type |-> PrincipalType(c.principal), principal |-> p,
               ca |-> c.cacn, profile |-> DEFAULT_PROFILE, ok |-> ok]}],
         next)

\* caacl_check: acl_evaluate for a principal; ACIError on a false verdict
CaaclCheck(c, p, ok, next) ==
    LET d == [c EXCEPT !.acl = @ \cup
                 {[type |-> PrincipalType(c.principal), principal |-> p,
                   ca |-> c.cacn, profile |-> DEFAULT_PROFILE, ok |-> ok]}]
    IN  IF ok THEN Goto(d, next) ELSE Fail(d, "ACIError")

\* lines 576-583: the bypass permission, then the CA ACL of the principal
ReqCaacl ==
    /\ call.pc = "caacl"
    /\ \E bypass \in BOOLEAN :
         LET c == [Asked(call, "request certificate ignore caacl", bypass)
                      EXCEPT !.bypass = bypass]
         IN  IF ~bypass
             THEN \E ok \in BOOLEAN :
                    call' = CaaclCheck(c, c.principal, ok, "csr")
             ELSE call' = Goto(c, "csr")
    /\ UNCHANGED <<requestFrame, usercertificate, raCerts, entries, revoked>>

\* mutant: a request that does not load has an error kind of its own
LoadCsrErrorOwnKind(csr) == IF csr.valid THEN "" ELSE "DecodeError"

\* lines 585-589: the error raised when the request does not load, "" when
\* it loads
LoadCsrError(csr) == IF csr.valid THEN "" ELSE "CertificateOperationError"

\* lines 585-601: load the request; the permission to request a subject
\* alternative name
ReqLoadCsr ==
    /\ call.pc = "csr"
    /\ IF LoadCsrError(call.csr) # ""
       THEN call' = Fail(call, LoadCsrError(call.csr))
       ELSE IF OtherNonHost(call.bind, call.principal) /\ call.csr.san # << >>
       THEN \E ok \in BOOLEAN :
              LET c == Asked(call, "request certificate with subjectaltname",
                             ok)
              IN  call' = IF ok THEN Goto(c, "lookup")
                          ELSE Fail(c, "ACIError")
       ELSE call' = Goto(call, "lookup")
    /\ UNCHANGED <<requestFrame, usercertificate, raCerts, entries, revoked>>

\* mutant: the service entry is not written to the directory
ServiceAddDropped(dir, p) == dir

\* lines 619-621: service_add(principal_string, force=True)
ServiceAdd(dir, p) == dir \cup {p}

\* lines 603-630: service_show, host_show or user_show; service_add when the
\* entry is missing and add was asked for a service
ReqLookup ==
    /\ call.pc = "lookup"
    /\ IF call.principal \in entries
       THEN /\ call' = Goto(call, "subject")
            /\ UNCHANGED entries
       ELSE IF call.add
       THEN IF PrincipalType(call.principal) = SERVICE
            THEN /\ entries' = ServiceAdd(entries, call.principal)
                 /\ call' = Goto([call EXCEPT !.created = {call.principal}],
                                 "subject")
            ELSE /\ call' = Fail(call, "OperationNotSupportedForPrincipalType")
                 /\ UNCHANGED entries
       ELSE /\ call' = Fail(call, "NotFound")
            /\ UNCHANGED entries
    /\ UNCHANGED <<requestFrame, usercertificate, raCerts, revoked>>

\* mutant: the first Common Name is looked at
LastCnFirst(csr) == csr.cns[1]

\* cns[-1].value: the most specific Common Name
LastCn(csr) == csr.cns[Len(csr.cns)]

\* lines 659-661: set(email_addrs) - set(mail) is not empty.  email_addrs
\* holds the NameAttribute objects of the subject, mail holds strings, and a
\* NameAttribute never equals a string: every address of the subject is left
EmailsNotInMail(csr, principal) == csr.emails # {}

\* lines 632-667: the Common Name and the email addresses of the subject
ReqSubject ==
    /\ call.pc = "subject"
    /\ call' =
         IF Len(call.csr.cns) = 0 THEN Fail(call, "ValidationError")
         ELSE IF PrincipalType(call.principal) \in {SERVICE, HOST}
         THEN IF Lower(LastCn(call.csr)) # Lower(call.principal.name)
              THEN Fail(call, "ACIError")
              ELSE Goto(call, "write")
         ELSE IF LastCn(call.csr) # call.principal.name
         THEN Fail(call, "ValidationError")
         ELSE IF EmailsNotInMail(call.csr, call.principal)
         THEN Fail(call, "ValidationError")
         ELSE Goto(call, "write")
    /\ UNCHANGED <<requestFrame, usercertificate, raCerts, entries, revoked>>

\* mutant: a denied write permission does not stop the request
CanWriteIgnoreDenial(c, p, ok, next) ==
    Goto([c EXCEPT !.canwrite = @ \cup {[principal |-> p, ok |-> ok]}], next)

\* ldap.can_write(dn, "usercertificate") recorded, ACIError when denied
CanWrite(c, p, ok, next) ==
    LET d == [c EXCEPT !.canwrite = @ \cup {[principal |-> p, ok |-> ok]}]
    IN  IF ok THEN Goto(d, next) ELSE Fail(d, "ACIError")

\* lines 669-672
ReqCanWrite ==
    /\ call.pc = "write"
    /\ \E ok \in Answers(call.canwrite, call.principal) :
         call' = CanWrite(call, call.principal, ok, "san")
    /\ UNCHANGED <<requestFrame, usercertificate, raCerts, entries, revoked>>

\* mutant: the DNSName is taken to stand for the principal itself
AltPrincipalSelf(principal, name) == principal

\* lines 684-692: the principal a DNSName of the request stands for
AltPrincipal(principal, name) ==
    IF PrincipalType(principal) = HOST THEN Princ("host", name)
    ELSE Princ(principal.service, name)

\* mutant: the CA ACL is not evaluated for the alternate principal
SanAliasNoCaacl(c, alt, w, ok) == CanWrite(c, alt, w, "san")

\* mutant: the CA ACL of the alternate principal is evaluated despite bypass
SanAliasIgnoreBypass(c, alt, w, ok) ==
    LET d == CanWrite(c, alt, w, "san")
    IN  IF ~w THEN d ELSE CaaclCheck(d, alt, ok, "san")

\* mutant: the write permission on the alternate entry is not asked for
SanAliasNoCanWrite(c, alt, w, ok) ==
    IF ~c.bypass THEN CaaclCheck(Goto(c, "san"), alt, ok, "san")
    ELSE Goto(c, "san")

\* lines 707-714: the write permission on the alternate entry, then (unless
\* bypassed) the CA ACL of the alternate principal
SanAlias(c, alt, w, ok) ==
    LET d == CanWrite(c, alt, w, "san")
    IN  IF ~w THEN d
        ELSE IF ~c.bypass THEN CaaclCheck(d, alt, ok, "san")
        ELSE d

\* mutant: a general name of another type is let through
SanTypeErrorLax(gn, principal) ==
    IF gn.type \in {"KRB5PrincipalName", "UPN"}
    THEN IF gn.name # PrincipalString(principal) THEN "ACIError" ELSE ""
    ELSE IF gn.type = "RFC822Name"
    THEN IF PrincipalType(principal) = USER /\ gn.value \in Mail(principal)
         THEN "" ELSE "ValidationError"
    ELSE ""

\* lines 715-740: the error a general name that is not a DNSName raises, ""
\* when it raises none
SanTypeError(gn, principal) ==
    IF gn.type \in {"KRB5PrincipalName", "UPN"}
    THEN IF gn.name # PrincipalString(principal) THEN "ACIError" ELSE ""
    ELSE IF gn.type = "RFC822Name"
    THEN IF PrincipalType(principal) = USER /\ gn.value \in Mail(principal)
         THEN "" ELSE "ValidationError"
    ELSE "ACIError"

\* lines 678-740: one iteration of "for gn in generalnames"
ReqSan ==
    /\ call.pc = "san"
    /\ IF call.i > Len(call.csr.san)
       THEN call' = Goto(call, "issue")
       ELSE
         LET gn   == call.csr.san[call.i]
             c    == [call EXCEPT !.i = @ + 1]
             type == PrincipalType(call.principal)
         IN  IF gn.type = "DNSName"
             THEN IF type = USER THEN call' = Fail(call, "ValidationError")
                  ELSE LET alt == AltPrincipal(call.principal, gn.value)
                       IN  IF alt \notin entries
                           THEN call' = Fail(call, "NotFound")
                           ELSE \E w \in Answers(call.canwrite, alt),
                                   ok \in Answers(call.acl, alt) :
                                  call' = SanAlias(c, alt, w, ok)
             ELSE call' = IF SanTypeError(gn, call.principal) = ""
                          THEN c
                          ELSE Fail(call, SanTypeError(gn, call.principal))
    /\ UNCHANGED <<requestFrame, usercertificate, raCerts, entries, revoked>>

\* the certificate the CA backend issues for a request
IssuedCert(c) ==
    Cert(CaNamed(c.cacn).ipacasubjectdn, NextSerial, LastCn(c.csr))

\* the CA backend has room for another certificate
CanIssue == Cardinality(raCerts \ InitialCerts) < MaxIssued

\* mutant: the failure of the backend is raised as it came
IssueErrorRaw(status) == "HTTPRequestError"

\* lines 746-751: HTTP status 409 means the CA is disabled, any other HTTP
\* failure is raised again
IssueError(status) ==
    IF status = 409 THEN "CertificateOperationError" ELSE "HTTPRequestError"

\* lines 742-751: ra.request_certificate
ReqIssue ==
    /\ call.pc = "issue"
    /\ \/ /\ CanIssue
          /\ raCerts' = raCerts \cup {IssuedCert(call)}
          /\ call' = Goto([call EXCEPT !.issued = {IssuedCert(call)}],
                          "store")
       \/ /\ \E status \in {404, 409, 500} :
               call' = Fail([call EXCEPT !.status = status],
                            IssueError(status))
          /\ UNCHANGED raCerts
    /\ UNCHANGED <<requestFrame, usercertificate, entries, revoked>>

\* mutant: the certificate replaces the values of the entry
AddAttrReplace(dir, p, cert) == [dir EXCEPT ![p] = <<cert>>]

\* service_mod, host_mod or user_mod with addattr=usercertificate=<cert>
AddAttr(dir, p, cert) == [dir EXCEPT ![p] = Append(@, cert)]

\* mutant: the certificate is stored whatever the profile says
StoreIssuedAlways(flag) == TRUE

\* lines 761-762: store = ipacertprofilestoreissued[0] == 'TRUE'
StoreIssued(flag) == flag

\* lines 758-770: ipacertprofilestoreissued of the profile decides whether
\* the certificate is added to the entry
ReqStore ==
    /\ call.pc = "store"
    /\ \E flag \in BOOLEAN :
         LET c == [call EXCEPT !.storeflag = {flag}]
         IN  IF StoreIssued(flag)
             THEN /\ usercertificate' =
                        AddAttr(usercertificate, call.principal,
                                ValueOf(call.issued))
                  /\ call' = Goto([c EXCEPT
                                     !.stored = TRUE,
                                     !.mods = @ \cup
                                         {[attr |-> "usercertificate",
                                           how  |-> "addattr"]}],
                                  "done")
             ELSE /\ UNCHANGED usercertificate
                  /\ call' = Goto(c, "done")
    /\ UNCHANGED <<requestFrame, raCerts, entries, revoked>>

\* the call returns or its error reaches the caller
ReqReturn ==
    /\ call.pc = "done"
    /\ call' = IdleCall
    /\ UNCHANGED <<requestFrame, usercertificate, raCerts, entries, revoked>>

(***************************************************************************)
(* cert_request.execute of the legacy plugin (ipalib/plugins/cert.py)      *)
(***************************************************************************)
\* get_csr_hostname: the value of the first CN of the subject, None without
FirstCn(csr) == IF Len(csr.cns) = 0 THEN {} ELSE {csr.cns[1]}

\* get_subjectaltname: the names of the subject alternative name extension
SubjectAltNames(csr) == [j \in 1..Len(csr.san) |-> csr.san[j].value]

\* the managedby attribute of a host or service entry: the host it runs on
ManagedBy(p) == IF IsUser(p) THEN {} ELSE {Princ("host", p.name)}

LegacyCsrChoices ==
    {BadCsr, Csr(<< >>, {}, << >>)}
    \cup {Csr(cns, {}, << >>) :
             cns \in {<<"h1">>, <<"H1">>, <<"alice", "h1">>,
                      <<"h1", "alice">>}}
    \cup {Csr(<<"h1">>, {}, san) :
             san \in {<<DNSName("h1")>>, <<DNSName("h2")>>,
                      <<DNSName("h3")>>}}

\* lines 235-257: the caller may request certificates
LegBegin ==
    /\ call.pc = "idle"
    /\ \E bind \in {Alice, HostH1, HttpH1},
          principal \in {HostH1, HostH3, HttpH1},
          add \in BOOLEAN,
          csr \in LegacyCsrChoices :
        LET c == Goto(NewCall("legacy", bind, principal, add, csr, "ipa"),
                      "l_begin")
        IN  IF ~IsHost(bind)
            THEN \E ok \in BOOLEAN :
                   LET d == Asked(c, "request certificate", ok)
                   IN  call' = IF ok THEN Goto(d, "l_subject")
                               ELSE Fail(d, "ACIError")
            ELSE call' = Goto(c, "l_subject")
    /\ UNCHANGED <<requestFrame, usercertificate, raCerts, entries, revoked>>

\* lines 261-265: the hostname of the subject is the one of the principal
LegSubject ==
    /\ call.pc = "l_subject"
    /\ call' =
         IF ~call.csr.valid THEN Fail(call, "CertificateOperationError")
         ELSE IF FirstCn(call.csr) = {} THEN Fail(call, "AttributeError")
         ELSE IF Lower(ValueOf(FirstCn(call.csr))) # Lower(call.principal.name)
         THEN Fail(call, "ACIError")
         ELSE Goto(call, "l_lookup")
    /\ UNCHANGED <<requestFrame, usercertificate, raCerts, entries, revoked>>

\* lines 267-286: service_show or host_show; service_add when the entry is
\* missing and add was asked
LegLookup ==
    /\ call.pc = "l_lookup"
    /\ IF call.principal \in entries
       THEN /\ call' = Goto([call EXCEPT !.service =
                                usercertificate[call.principal]],
                            "l_write")
            /\ UNCHANGED entries
       ELSE IF ~call.add
       THEN /\ call' = Fail(call, "NotFound")
            /\ UNCHANGED entries
       ELSE \E ok \in BOOLEAN :
              IF ok
              THEN /\ entries' = entries \cup {call.principal}
                   /\ call' = Goto([call EXCEPT !.created = {call.principal}],
                                   "l_write")
              ELSE /\ call' = Fail(call, "ACIError")
                   /\ UNCHANGED entries
    /\ UNCHANGED <<requestFrame, usercertificate, raCerts, revoked>>

\* lines 288-290
LegCanWrite ==
    /\ call.pc = "l_write"
    /\ \E ok \in Answers(call.canwrite, call.principal) :
         call' = CanWrite(call, call.principal, ok, "l_san")
    /\ UNCHANGED <<requestFrame, usercertificate, raCerts, entries, revoked>>

\* lines 292-307: one iteration of "for name in subjectaltname"
LegSan ==
    /\ call.pc = "l_san"
    /\ call' =
         IF call.i > Len(SubjectAltNames(call.csr))
         THEN Goto(call, "l_revoke")
         ELSE LET host == Princ("host", SubjectAltNames(call.csr)[call.i])
              IN  IF host \notin entries THEN Fail(call, "NotFound")
                  ELSE IF IsHost(call.bind) /\
                          host \notin ManagedBy(call.principal)
                  THEN Fail(call, "ACIError")
                  ELSE [call EXCEPT !.i = @ + 1]
    /\ UNCHANGED <<requestFrame, usercertificate, raCerts, entries, revoked>>

RevokedSerials == {r.serial : r \in revoked}

\* mutant: the certificate stays on the entry until the new one is written
ClearAttrKept(dir, p) == dir

\* service_mod or host_mod with usercertificate=None
ClearAttr(dir, p) == [dir EXCEPT ![p] = << >>]

\* lines 309-329: the certificate the entry caches is looked up with
\* cert_show, revoked with reason 4 unless it is revoked already, and removed
\* from the entry.  cert_show and cert_revoke check the caller's access; a
\* backend that does not implement get or revoke is tolerated.
LegRevoke ==
    /\ call.pc = "l_revoke"
    /\ IF call.service = << >>
       THEN /\ call' = Goto(call, "l_issue")
            /\ UNCHANGED <<usercertificate, revoked>>
       ELSE
         LET serial == call.service[1].serial
             clear  == ClearAttr(usercertificate, call.principal)
         IN  \E show \in BOOLEAN, get \in BOOLEAN :
               LET c == Asked(call, "retrieve certificate", show)
               IN  IF ~show
                   THEN /\ call' = Fail(c, "ACIError")
                        /\ UNCHANGED <<usercertificate, revoked>>
                   ELSE IF ~get \/ serial \in RevokedSerials
                   THEN /\ call' = Goto(
                               [c EXCEPT !.tolerated = ~get], "l_issue")
                        /\ usercertificate' = clear
                        /\ UNCHANGED revoked
                   ELSE \E rev \in BOOLEAN, impl \in BOOLEAN :
                          LET d == [Asked(c, "revoke certificate", rev)
                                      EXCEPT !.revokes = @ \cup {serial}]
                          IN  IF ~rev
                              THEN /\ call' = Fail(d, "ACIError")
                                   /\ UNCHANGED <<usercertificate, revoked>>
                              ELSE /\ call' = Goto(
                                          [d EXCEPT !.tolerated = ~impl],
                                          "l_issue")
                                   /\ usercertificate' = clear
                                   /\ revoked' =
                                        IF impl
                                        THEN revoked \cup
                                             {[serial |-> serial,
                                               reason |-> 4]}
                                        ELSE revoked
    /\ UNCHANGED <<requestFrame, raCerts, entries>>

\* line 332: ra.request_certificate; a failure of the backend is raised
LegIssue ==
    /\ call.pc = "l_issue"
    /\ \/ /\ CanIssue
          /\ raCerts' = raCerts \cup
                 {Cert(IpaCa.ipacasubjectdn, NextSerial,
                       ValueOf(FirstCn(call.csr)))}
          /\ call' = Goto([call EXCEPT !.issued =
                              {Cert(IpaCa.ipacasubjectdn, NextSerial,
                                    ValueOf(FirstCn(call.csr)))}],
                          "l_store")
       \/ /\ call' = Fail(call, "HTTPRequestError")
          /\ UNCHANGED raCerts
    /\ UNCHANGED <<requestFrame, usercertificate, entries, revoked>>

\* service_mod or host_mod with usercertificate=<cert>
ReplaceAttr(dir, p, cert) == [dir EXCEPT ![p] = <<cert>>]

\* lines 340-348: the certificate becomes the usercertificate of the entry
LegStore ==
    /\ call.pc = "l_store"
    /\ usercertificate' =
           ReplaceAttr(usercertificate, call.principal, ValueOf(call.issued))
    /\ call' = Goto([call EXCEPT
                        !.stored = TRUE,
                        !.mods = @ \cup {[attr |-> "usercertificate",
                                          how  |-> "set"]}],
                    "done")
    /\ UNCHANGED <<requestFrame, raCerts, entries, revoked>>

Init ==
    /\ find = NoCall
    /\ caEnabled \in BOOLEAN
    /\ usercertificate =
           [p \in Principals |->
               IF p = HostH1 THEN <<RaCert(1)>> ELSE << >>]
    /\ raCerts = InitialCerts
    /\ entries = InitialEntries
    /\ revoked = {}
    /\ call = IdleCall

Next ==
    \/ ReqBegin
    \/ ReqBindCheck
    \/ ReqCaacl
    \/ ReqLoadCsr
    \/ ReqLookup
    \/ ReqSubject
    \/ ReqCanWrite
    \/ ReqSan
    \/ ReqIssue
    \/ ReqStore
    \/ LegBegin
    \/ LegSubject
    \/ LegLookup
    \/ LegCanWrite
    \/ LegSan
    \/ LegRevoke
    \/ LegIssue
    \/ LegStore
    \/ ReqReturn

Spec == Init /\ [][Next]_vars

(***************************************************************************)
(* Properties of the merge loop                                            *)
(***************************************************************************)
Returned == find.state = "returned"

KeyA1 == <<"CN=A", 1>>

KeyB2 == <<"CN=B", 2>>

\* the sub-results of the merge example: inline {(CN=A,1): {certificate}}
\* not complete, CA {(CN=A,1): {subject, status}} complete, directory
\* {(CN=B,2): {owner}} not complete
MergeExample ==
    /\ Returned
    /\ find.subs[1].result = <<[key |-> KeyA1, obj |-> {"certificate"}]>>
    /\ ~find.subs[1].complete
    /\ find.subs[2].result = <<[key |-> KeyA1, obj |-> {"subject", "status"}]>>
    /\ find.subs[2].complete
    /\ find.subs[3].result = <<[key |-> KeyB2, obj |-> {"owner"}]>>
    /\ ~find.subs[3].complete

\* C3: folding the merge example in the order inline, CA, directory returns
\* exactly one record, keyed (CN=A,1), with the merged fields certificate,
\* subject and status; (CN=B,2) is not in the result.
C3_MergeExample ==
    MergeExample =>
        /\ find.result =
             <<[key |-> KeyA1, obj |-> {"certificate", "subject", "status"}]>>
        /\ find.count = 1
        /\ KeyB2 \notin OdKeys(find.result)

C3_Witness == MergeExample /\ find.count = 1

\* C4: every returned key belongs to the key set of every sub-search that
\* reported complete=true during the call.
C4_ResultWithinCompleteSubs ==
    Returned =>
        \A i \in 1..3 :
            find.subs[i].complete =>
                OdKeys(find.result) \subseteq OdKeys(find.subs[i].result)

\* a complete sub-search pruned a key an earlier sub-search had contributed,
\* a later sub-search offered a key it lacks, and a record survived
C4_Witness ==
    /\ Returned
    /\ find.subs[2].complete
    /\ OdKeys(find.subs[1].result) \ OdKeys(find.subs[2].result) # {}
    /\ OdKeys(find.subs[3].result) \ OdKeys(find.subs[2].result) # {}
    /\ find.count > 0

\* keys of iteration i that the running map lacks when the sub-result is
\* merged (accs[i] is the accumulator before iteration i)
NewKeys(i) == OdKeys(find.subs[i].result) \ OdKeys(find.accs[i].result)

Skipped(i, k) == k \notin OdKeys(find.accs[i + 1].result)

\* C5 as stated: a key only in the new sub-result is skipped exactly when the
\* running complete flag is true and the new sub-search is not complete.
C5_SkipUnlessSubComplete ==
    Returned =>
        \A i \in 1..3 : \A k \in NewKeys(i) :
            Skipped(i, k) <=>
                (find.accs[i].complete /\ ~find.subs[i].complete)

\* C5 (amended): a key only in the new sub-result is skipped exactly when
\* the running complete flag is already true, whether or not the new
\* sub-search is itself complete; it is added when the flag is false.
C5_SkipIffRunningComplete ==
    Returned =>
        \A i \in 1..3 : \A k \in NewKeys(i) :
            Skipped(i, k) <=> find.accs[i].complete

\* a complete sub-search, running after an earlier complete one, offers a new
\* key and it is skipped; an earlier iteration added a new key
C5_Witness ==
    /\ Returned
    /\ \E i \in 2..3 : \E k \in NewKeys(i) :
           find.accs[i].complete /\ find.subs[i].complete /\ Skipped(i, k)
    /\ \E k \in NewKeys(1) : ~Skipped(1, k)

(***************************************************************************)
(* Properties of cert_find over the two backends                           *)
(***************************************************************************)
\* the loop ran at least its first iteration (the call was not answered
\* before the loop)
InlineRan == find.state \in {"returned", "raised"} /\ Len(find.subs) >= 1

AllRan == Returned /\ Len(find.subs) = 3

\* C6 as stated: the inline sub-search reports complete=false on every call.
C6_InlineNeverComplete ==
    InlineRan => ~find.subs[1].complete

\* C6 (amended): the inline sub-search reports complete=false when no
\* certificate was supplied and complete=true whenever one was supplied:
\* with one record and truncated=false when it decodes, with no record and
\* truncated=true when it fails to decode.
C6_InlineCompleteIffSupplied ==
    InlineRan =>
        LET s == find.subs[1]
            c == find.opts.certificate
        IN  /\ s.complete <=> Supplied(c)
            /\ ~Supplied(c) => s.result = OdEmpty /\ ~s.truncated
            /\ (Supplied(c) /\ ValueOf(c).valid) =>
                   /\ OdKeys(s.result) =
                          {<<ValueOf(c).issuer, ValueOf(c).serial>>}
                   /\ ~s.truncated
            /\ (Supplied(c) /\ ~ValueOf(c).valid) =>
                   s.result = OdEmpty /\ s.truncated

\* an undecodable certificate was supplied and the inline search reported
\* complete=true
C6_Witness ==
    /\ AllRan
    /\ find.opts.certificate = {Garbage}
    /\ find.subs[1].complete
    /\ find.truncated

NoRaFilterGiven(o) ==
    /\ ~Supplied(o.issuer) /\ ~Supplied(o.subject)
    /\ ~Supplied(o.min_serial_number) /\ ~Supplied(o.max_serial_number)
    /\ ~Supplied(o.others) /\ ~Supplied(o.cacn)

\* a call with no inline certificate, no CA-specific filter and no owner
\* filter (and no free-text criteria)
NoCriteriaCall ==
    /\ find.state \in {"returned", "raised"}
    /\ ~Supplied(find.opts.certificate)
    /\ NoRaFilterGiven(find.opts)
    /\ find.opts.owners = {}
    /\ ~Supplied(find.opts.criteria)

\* C7 as stated: such a call returns an empty result and every sub-search
\* reports complete=false.
C7_NoCriteriaEmpty ==
    NoCriteriaCall =>
        /\ AllRan
        /\ find.count = 0
        /\ \A i \in 1..3 : ~find.subs[i].complete

\* the keys of the certificates of the backend whose issuer is a CA object
TrackedRaKeys ==
    {<<c.issuer, c.serial>> :
        c \in {x \in raCerts :
                  \E ca \in CaObjs : ca.ipacasubjectdn = x.issuer}}

\* the keys of the decodable usercertificate values of the directory
DirKeys ==
    {<<c.issuer, c.serial>> :
        c \in {x \in UNION {{usercertificate[p][i] :
                                i \in 1..Len(usercertificate[p])} :
                            p \in DOMAIN usercertificate} : x.valid}}

\* C7 (amended): such a call, made with neither a non-zero size limit nor
\* the exactly flag, returns with every sub-search reporting complete=false,
\* and its result is not empty in general: it holds every certificate of
\* the CA backend issued by a known CA (when a CA is configured) and every
\* decodable certificate cached in the directory.
C7_NoCriteriaUnion ==
    (/\ NoCriteriaCall
     /\ find.opts.sizelimit \in {NoLimit, 0}
     /\ ~find.opts.exactly) =>
        /\ AllRan
        /\ \A i \in 1..3 : ~find.subs[i].complete
        /\ OdKeys(find.result) =
               (IF caEnabled THEN TrackedRaKeys ELSE {}) \cup DirKeys
        /\ find.count = Cardinality(OdKeys(find.result))

\* the call returned certificates of the CA backend and of the directory
C7_Witness ==
    /\ NoCriteriaCall /\ AllRan
    /\ find.opts.sizelimit = NoLimit /\ ~find.opts.exactly
    /\ find.count >= 3
    /\ OdKeys(find.subs[2].result) # {}
    /\ OdKeys(find.subs[3].result) \ OdKeys(find.subs[2].result) # {}

\* a call with only an inline certificate that decodes
InlineOnlyCall ==
    /\ find.state \in {"returned", "raised"}
    /\ Supplied(find.opts.certificate)
    /\ ValueOf(find.opts.certificate).valid
    /\ NoRaFilterGiven(find.opts)
    /\ find.opts.owners = {}
    /\ ~Supplied(find.opts.criteria)
    /\ ~find.opts.exactly

\* C8: a call with only an inline certificate that decodes returns exactly
\* one record, keyed by that certificate's (issuer, serial), whatever the CA
\* backend search and the directory search return.
C8_InlineOnlyOneRecord ==
    InlineOnlyCall =>
        /\ AllRan
        /\ find.count = 1
        /\ OdKeys(find.result) =
               {<<ValueOf(find.opts.certificate).issuer,
                  ValueOf(find.opts.certificate).serial>>}

\* the CA search and the directory search both returned other certificates
C8_Witness ==
    /\ InlineOnlyCall /\ AllRan
    /\ find.count = 1
    /\ OdKeys(find.subs[2].result) \ OdKeys(find.result) # {}
    /\ OdKeys(find.subs[3].result) \ OdKeys(find.result) # {}

(***************************************************************************)
(* Properties of cert_request                                              *)
(***************************************************************************)
InRequest == call.pc # "idle" /\ call.op = "cert_request"

\* the CA backend's request_certificate was called and issued a certificate
Issued == InRequest /\ call.issued # {}

Granted(op) == [op |-> op, ok |-> TRUE] \in call.access

\* the policy engine returned true for principal p, the CA and the profile
\* of the request
AclTrue(p) ==
    [type |-> PrincipalType(call.principal), principal |-> p,
     ca |-> call.cacn, profile |-> DEFAULT_PROFILE, ok |-> TRUE] \in call.acl

Writable(p) == [principal |-> p, ok |-> TRUE] \in call.canwrite

\* the Common Name of the request is bound to the principal
CnBound ==
    /\ Len(call.csr.cns) > 0
    /\ IF PrincipalType(call.principal) = USER
       THEN LastCn(call.csr) = call.principal.name
       ELSE Lower(LastCn(call.csr)) = Lower(call.principal.name)

\* a general name of the request is bound to the principal
SanBound(gn) ==
    IF gn.type = "DNSName"
    THEN /\ PrincipalType(call.principal) # USER
         /\ AltPrincipal(call.principal, gn.value) \in entries
    ELSE IF gn.type \in {"KRB5PrincipalName", "UPN"}
    THEN gn.name = PrincipalString(call.principal)
    ELSE IF gn.type = "RFC822Name"
    THEN /\ PrincipalType(call.principal) = USER
         /\ gn.value \in Mail(call.principal)
    ELSE FALSE

\* the positions of the checks that come before request_certificate
CheckPositions ==
    {"begin", "bind", "caacl", "csr", "lookup", "subject", "write", "san"}

\* C1: request_certificate is called only after the bind-vs-target
\* permission check, the CA-ACL check (or its bypass), the SAN permission
\* check, the principal lookup, the CN/SAN binding validation and the
\* write-permission check have passed; when one of them raises, no
\* certificate is issued and no usercertificate value is written.
C1_IssueOnlyAfterChecks ==
    /\ Issued =>
        /\ OtherNonHost(call.bind, call.principal) =>
               Granted("request certificate")
        /\ Granted("request certificate ignore caacl")
               \/ AclTrue(call.principal)
        /\ (OtherNonHost(call.bind, call.principal) /\ call.csr.san # << >>)
               => Granted("request certificate with subjectaltname")
        /\ call.principal \in entries
        /\ CnBound
        /\ \A j \in 1..Len(call.csr.san) : SanBound(call.csr.san[j])
        /\ Writable(call.principal)
        /\ \A a \in call.acl : a.ok
        /\ \A w \in call.canwrite : w.ok
    /\ (InRequest /\ call.error # "" /\ call.at \in CheckPositions) =>
        /\ call.issued = {}
        /\ ~call.stored
        /\ usercertificate = call.before

\* a certificate was issued and stored for another principal's request that
\* carries a DNSName, with the CA ACL in force
C1_Witness ==
    /\ Issued /\ call.pc = "done" /\ call.error = "" /\ call.stored
    /\ OtherNonHost(call.bind, call.principal)
    /\ ~call.bypass
    /\ \E j \in 1..Len(call.csr.san) : call.csr.san[j].type = "DNSName"
    /\ usercertificate # call.before

\* C9: without CA-ACL bypass the policy engine is evaluated for the primary
\* principal and for the alternate principal of every DNSName; a
\* certificate is issued only if every evaluation returned true for the
\* target CA and profile.
C9_AclForPrincipalAndAliases ==
    (Issued /\ ~Granted("request certificate ignore caacl")) =>
        /\ AclTrue(call.principal)
        /\ \A j \in 1..Len(call.csr.san) :
               call.csr.san[j].type = "DNSName" =>
                   AclTrue(AltPrincipal(call.principal, call.csr.san[j].value))
        /\ \A a \in call.acl : a.ok

\* issued without bypass for a request with a DNSName of another host
C9_Witness ==
    /\ Issued /\ ~call.bypass
    /\ \E j \in 1..Len(call.csr.san) :
           /\ call.csr.san[j].type = "DNSName"
           /\ AltPrincipal(call.principal, call.csr.san[j].value)
                  # call.principal
    /\ Cardinality(call.acl) = 2

\* C10: a caller that holds 'request certificate ignore caacl' never has
\* the policy engine called, for the primary principal or for an alias; for
\* a caller that does not hold it, a false verdict for the primary
\* principal ends the request with ACIError.
C10_BypassSkipsPolicyEngine ==
    InRequest =>
        /\ Granted("request certificate ignore caacl") => call.acl = {}
        /\ (\E a \in call.acl : a.principal = call.principal /\ ~a.ok) =>
               /\ call.pc = "done"
               /\ call.error = "ACIError"
               /\ call.issued = {}

\* a caller holding the bypass permission was issued a certificate for a
\* request with a DNSName alias
C10_Witness ==
    /\ Issued /\ Granted("request certificate ignore caacl")
    /\ \E j \in 1..Len(call.csr.san) :
           /\ call.csr.san[j].type = "DNSName"
           /\ Writable(AltPrincipal(call.principal, call.csr.san[j].value))
    /\ call.acl = {}

(***************************************************************************)
(* Re-issuing a certificate for an entry that caches one                   *)
(***************************************************************************)
\* a request succeeded, for a principal whose entry cached a certificate,
\* and the certificate was stored
Reissued ==
    /\ call.pc = "done" /\ call.error = ""
    /\ call.issued # {} /\ call.stored
    /\ call.before[call.principal] # << >>

\* the certificate the entry cached has been revoked, or the backend does
\* not implement the revocation and that was tolerated
OldRevoked ==
    \/ call.before[call.principal][1].serial \in RevokedSerials
    \/ call.tolerated

\* C2 as stated: after a successful request for a principal whose entry
\* caches a certificate, usercertificate holds exactly the new certificate
\* and the old certificate's serial has been revoked (or the revocation was
\* tolerated).
C2_OneCachedCertAfterReissue ==
    Reissued =>
        /\ usercertificate[call.principal] = <<ValueOf(call.issued)>>
        /\ OldRevoked

\* C2 (amended): that holds of the legacy cert_request.  The current
\* cert_request adds the new certificate to the values the entry caches,
\* which it keeps, and revokes nothing.
C2_ReplaceLegacyAppendCurrent ==
    Reissued =>
        IF call.op = "legacy"
        THEN /\ usercertificate[call.principal] = <<ValueOf(call.issued)>>
             /\ OldRevoked
        ELSE /\ usercertificate[call.principal] =
                    Append(call.before[call.principal], ValueOf(call.issued))
             /\ revoked = call.revbefore

\* the legacy request revoked the cached certificate and replaced it
C2_Witness ==
    /\ Reissued /\ call.op = "legacy"
    /\ call.before[call.principal][1].serial \in call.revokes
    /\ call.before[call.principal][1].serial \in RevokedSerials
    /\ Len(usercertificate[call.principal]) = 1

(***************************************************************************)
(* The permissions of the caller                                           *)
(***************************************************************************)
\* a call of the current or of the legacy cert_request is under way or over
InAnyRequest == call.pc # "idle"

\* the permission check for operation op was made during the call
AskedFor(op) == \E a \in call.access : a.op = op

\* the permission check for operation op was made and denied
Denied(op) == [op |-> op, ok |-> FALSE] \in call.access

\* the caller is not the principal the certificate is for, and not a host
ForAnotherByNonHost ==
    /\ PrincipalString(call.bind) # PrincipalString(call.principal)
    /\ call.bind.service # "host"

\* the call has gone past the place of the 'request certificate' check
PastBindCheck ==
    /\ InAnyRequest
    /\ call.pc \notin {"begin", "bind", "l_begin"}
    /\ ~(call.pc = "done" /\ call.at \in {"begin", "l_begin"})

\* C11 as stated: in cert_request the 'request certificate' permission is
\* checked if and only if the bind principal differs from the requested
\* principal and is not a host; a caller that is denied receives ACIError;
\* self-service callers and host callers are never checked.
C11_PermissionIffOtherNonHost ==
    InAnyRequest =>
        /\ AskedFor("request certificate") => ForAnotherByNonHost
        /\ (PastBindCheck /\ ForAnotherByNonHost)
               => AskedFor("request certificate")
        /\ Denied("request certificate") =>
               call.pc = "done" /\ call.error = "ACIError"

\* C11 (amended): that holds of the current cert_request.  The legacy
\* cert_request checks the permission if and only if the bind principal is
\* not a host, self-service callers included; a caller that is denied
\* receives ACIError.
C11_PermissionCurrentAndLegacy ==
    InAnyRequest =>
        /\ call.op = "cert_request" =>
               /\ AskedFor("request certificate") => ForAnotherByNonHost
               /\ (PastBindCheck /\ ForAnotherByNonHost)
                      => AskedFor("request certificate")
        /\ call.op = "legacy" =>
               /\ AskedFor("request certificate")
                      => call.bind.service # "host"
               /\ (PastBindCheck /\ call.bind.service # "host")
                      => AskedFor("request certificate")
        /\ Denied("request certificate") =>
               /\ call.pc = "done" /\ call.error = "ACIError"
               /\ call.issued = {}

\* a user asked for a certificate for a host, was checked and was denied
C11_Witness ==
    /\ InRequest /\ ForAnotherByNonHost
    /\ Denied("request certificate")
    /\ call.pc = "done" /\ call.error = "ACIError" /\ call.at = "bind"

\* the call is over
Done == call.pc = "done"

\* the entry of the principal was in the directory before the call
PrincipalExisted == call.principal \in entries /\ call.created = {}

\* the CA is configured and the CA the request names exists
CaKnown == caEnabled /\ call.cacn \in {ca.cn : ca \in CaObjs}

\* C12 as stated: a caller that is not the target principal and was not
\* granted 'request certificate', asking for an existing principal, always
\* receives ACIError and never NotFound.
C12_OffLimitsAlwaysACIError ==
    (InRequest /\ Done
        /\ PrincipalString(call.bind) # PrincipalString(call.principal)
        /\ ~Granted("request certificate")
        /\ PrincipalExisted)
    => call.error = "ACIError"

\* C12 (amended): a caller that is not a host and not the target principal
\* and was not granted 'request certificate', asking for an existing
\* principal and naming an existing CA while the CA is configured, is
\* refused the permission before anything else is checked and receives
\* ACIError.
C12_OffLimitsNonHostKnownCa ==
    (InRequest /\ Done
        /\ ForAnotherByNonHost
        /\ ~Granted("request certificate")
        /\ PrincipalExisted
        /\ CaKnown)
    => /\ call.error = "ACIError" /\ call.at = "bind"
       /\ Denied("request certificate")
       /\ call.acl = {} /\ call.canwrite = {} /\ call.issued = {}

\* a user without the permission asked for the certificate of host h1
C12_Witness ==
    /\ InRequest /\ Done /\ CaKnown
    /\ call.bind = Alice /\ call.principal = HostH1 /\ PrincipalExisted
    /\ ~Granted("request certificate")
    /\ call.error = "ACIError"

(***************************************************************************)
(* The order of the checks                                                 *)
(***************************************************************************)
\* the request names a principal without an entry and does not ask to add it
MissingNoAdd == ~call.add /\ call.principal \notin entries

\* a permission check or a CA ACL evaluation of the call was answered no
SomeDenial ==
    \/ \E a \in call.access :
           a.op # "request certificate ignore caacl" /\ ~a.ok
    \/ \E a \in call.acl : ~a.ok

\* C13 as stated: with add=false a request that names a principal without
\* an entry, with a decodable CSR and a known CA, fails with NotFound even
\* when the caller is denied by the permission check or the CA ACL.
C13_NotFoundBeforeAcl ==
    (InRequest /\ Done /\ MissingNoAdd /\ call.csr.valid /\ CaKnown)
    => call.error = "NotFound"

\* C13 (amended): the permission check, the CA ACL check and the SAN
\* permission check precede the lookup of the principal.  With add=false a
\* request that names a principal without an entry fails with ACIError
\* when one of them denies the caller, and with NotFound only when all of
\* them have passed.
C13_AclBeforeNotFound ==
    (InRequest /\ Done /\ MissingNoAdd /\ call.csr.valid /\ CaKnown)
    => /\ SomeDenial =>
              /\ call.error = "ACIError"
              /\ call.at \in {"bind", "caacl", "csr"}
       /\ ~SomeDenial =>
              /\ call.error = "NotFound" /\ call.at = "lookup"
              /\ ForAnotherByNonHost => Granted("request certificate")
              /\ ~call.bypass => AclTrue(call.principal)

\* the CA ACL denied a request for host h3, which has no entry
C13_Witness ==
    /\ InRequest /\ Done /\ MissingNoAdd /\ CaKnown
    /\ call.principal = HostH3
    /\ call.error = "ACIError" /\ call.at = "caacl"

\* C14: a cert_request that names a CA that does not exist fails with
\* NotFound before any permission check, CA ACL evaluation or write
\* permission check is made, for every caller and every principal.
C14_UnknownCaNotFoundFirst ==
    (InRequest /\ call.cacn \notin {ca.cn : ca \in CaObjs})
    => /\ Done /\ call.error = "NotFound" /\ call.at = "begin"
       /\ call.access = {} /\ call.acl = {} /\ call.canwrite = {}
       /\ call.issued = {} /\ call.created = {}

\* a user asked an unknown CA for the certificate of a host, with the CA
\* configured
C14_Witness ==
    /\ InRequest /\ Done /\ caEnabled
    /\ call.cacn = "nosuch"
    /\ call.bind = Alice /\ call.principal = HostH1
    /\ call.error = "NotFound" /\ call.access = {}

(***************************************************************************)
(* Subject alternative names of unknown hosts                              *)
(***************************************************************************)
\* the host or service the j-th general name of the request stands for: the
\* host of that name, or for a service principal of the current handler the
\* same service on that host
SanEntry(j) ==
    Princ(IF call.op = "legacy" \/ call.principal.service = "host"
          THEN "host" ELSE call.principal.service,
          call.csr.san[j].value)

\* the j-th general name is a DNSName whose host or service has no entry,
\* and the names before it are DNSNames of entries the caller may use
FirstUnknownDns(j) ==
    /\ call.csr.san[j].type = "DNSName"
    /\ SanEntry(j) \notin entries
    /\ \A k \in 1..(j - 1) :
           /\ call.csr.san[k].type = "DNSName"
           /\ SanEntry(k) \in entries
           /\ (call.op = "legacy" /\ call.bind.service = "host")
                  => SanEntry(k) = Princ("host", call.principal.name)

\* every check of the caller made so far has passed, the CA is known, the
\* entry of the principal exists and the Common Name is the principal's
FullyAuthorized ==
    /\ ~SomeDenial
    /\ \A w \in call.canwrite : w.ok
    /\ call.op = "cert_request" => CaKnown
    /\ call.csr.valid /\ Len(call.csr.cns) > 0
    /\ call.principal \in entries
    /\ Lower(call.csr.cns[IF call.op = "legacy" THEN 1
                          ELSE Len(call.csr.cns)])
           = Lower(call.principal.name)

\* C15: a request for a Host or Service principal that carries a DNSName
\* whose host or service has no entry is never issued a certificate, and
\* when the caller passes every permission, CA ACL and write permission
\* check the request fails with NotFound.
C15_UnknownSanHostNotFound ==
    (InAnyRequest /\ call.principal.service # ""
        /\ \E j \in 1..Len(call.csr.san) : FirstUnknownDns(j))
    => /\ call.issued = {} /\ ~call.stored
       /\ (Done /\ FullyAuthorized) =>
              call.error = "NotFound" /\ call.at \in {"san", "l_san"}

\* a fully authorized request for host h1 with the DNSName of host h3,
\* which has no entry, has failed
C15_Witness ==
    /\ InRequest /\ Done /\ FullyAuthorized
    /\ call.principal = HostH1
    /\ \E j \in 1..Len(call.csr.san) :
           FirstUnknownDns(j) /\ call.csr.san[j].value = "h3"
    /\ Writable(HostH1)
    /\ call.error = "NotFound"

(***************************************************************************)
(* cert_revoke (ipaserver/plugins/cert.py and the legacy plugin)           *)
(***************************************************************************)
\* the most certificates revoked before calls stop being made
MaxRevoked == 1

\* the state of a call of cert_revoke that has just been entered
RevCall(op, bind, serial, reason, cacn) ==
    [pc      |-> "r_begin",
     op      |-> op,
     bind    |-> bind,
     serial  |-> serial,
     reason  |-> reason,
     cacn    |-> cacn,
     error   |-> "",
     at      |-> "",
     access  |-> {},      \* check_access: operations asked, with answer
     backend |-> {}]      \* the calls made to the CA backend

RaSerials == {c.serial : c \in raCerts}

\* ra.get_certificate(serial)
RaGet(serial) == CHOOSE c \in raCerts : c.serial = serial

\* mutant: every host may manage every certificate
BindPrincipalCanManageCertAnyHost(bind, cert) == PrincipalType(bind) = HOST

\* bind_principal_can_manage_cert: the caller is a host and the subject
\* Common Name of the certificate is its hostname
BindPrincipalCanManageCert(bind, cert) ==
    PrincipalType(bind) = HOST /\ bind.name = cert.subject

\* revocation_reason: Int with minvalue=0, maxvalue=10
RevocationReasons == 0..10

\* lines 958-959: ca_enabled_check()
RevBegin ==
    /\ call.pc = "idle"
    /\ Cardinality(revoked) < MaxRevoked
    /\ \E bind \in {Alice, HostH1, HostH2},
          serial \in 1..(MaxRaCerts + 1),
          reason \in RevocationReasons,
          cacn \in {"ipa", "sub", "nosuch"} :
        LET c == RevCall("cert_revoke", bind, serial, reason, cacn)
        IN  call' = IF ~caEnabled THEN Fail(c, "NotFound")
                    ELSE Goto(c, "r_show")
    /\ UNCHANGED <<requestFrame, usercertificate, raCerts, entries, revoked>>

\* lines 963 and 999, and cert_show.execute, lines 894-917: the certificate is known
\* to the backend, the caller may retrieve it, the CA exists and issued it
RevShow ==
    /\ call.pc = "r_show"
    /\ IF call.serial \notin RaSerials
       THEN call' = Fail(call, "NotFound")
       ELSE \E show \in BOOLEAN :
              LET c == Asked(call, "retrieve certificate", show)
              IN  call' =
                    IF ~show /\ ~BindPrincipalCanManageCert(
                                     call.bind, RaGet(call.serial))
                    THEN Fail(c, "ACIError")
                    ELSE IF ~CaExists(call.cacn) THEN Fail(c, "NotFound")
                    ELSE IF RaGet(call.serial).issuer
                               # CaNamed(call.cacn).ipacasubjectdn
                    THEN Fail(c, "NotFound")
                    ELSE Goto(c, IF call.op = "cert_remove_hold"
                                 THEN "h_access" ELSE "r_access")
    /\ UNCHANGED <<requestFrame, usercertificate, raCerts, entries, revoked>>

\* lines 965-974: the caller may revoke certificates, or manages this one
RevAccess ==
    /\ call.pc = "r_access"
    /\ \E rev \in BOOLEAN :
         LET c == Asked(call, "revoke certificate", rev)
         IN  call' = IF ~rev /\ ~BindPrincipalCanManageCert(
                                     call.bind, RaGet(call.serial))
                     THEN Fail(c, "ACIError")
                     ELSE Goto(c, "r_reason")
    /\ UNCHANGED <<requestFrame, usercertificate, raCerts, entries, revoked>>

\* ra.revoke_certificate(serial, revocation_reason) is called
RaRevokeCalled(c) ==
    Goto([c EXCEPT !.backend = @ \cup
             {[fn |-> "revoke_certificate", serial |-> c.serial,
               reason |-> c.reason]}],
         "done")

\* the backend marks a certificate it holds revoked, once
RaRevoke(rev, serial, reason) ==
    IF serial \in RaSerials /\ serial \notin {r.serial : r \in rev}
    THEN rev \cup {[serial |-> serial, reason |-> reason]}
    ELSE rev

\* mutant: every reason is passed on
ValidReasonAny(reason) == TRUE

\* lines 975-977: 7 is not a valid revocation reason
ValidReason(reason) == reason # 7

\* lines 975-984
RevReason ==
    /\ call.pc = "r_reason"
    /\ IF ~ValidReason(call.reason)
       THEN /\ call' = Fail(call, "CertificateOperationError")
            /\ UNCHANGED revoked
       ELSE /\ call' = RaRevokeCalled(call)
            /\ revoked' = RaRevoke(revoked, call.serial, call.reason)
    /\ UNCHANGED <<requestFrame, usercertificate, raCerts, entries>>

\* legacy cert_revoke.execute, line 467: self.check_access()
LegRevBegin ==
    /\ call.pc = "idle"
    /\ Cardinality(revoked) < MaxRevoked
    /\ \E bind \in {Alice, HostH1},
          serial \in 1..(MaxRaCerts + 1),
          reason \in RevocationReasons,
          ok \in BOOLEAN :
        LET c == Asked(RevCall("legacy_revoke", bind, serial, reason, ""),
                       "revoke certificate", ok)
        IN  call' = IF ok THEN Goto(c, "lr_revoke") ELSE Fail(c, "ACIError")
    /\ UNCHANGED <<requestFrame, usercertificate, raCerts, entries, revoked>>

\* legacy cert_revoke.execute, lines 468-470
LegRevBackend ==
    /\ call.pc = "lr_revoke"
    /\ call' = RaRevokeCalled(call)
    /\ revoked' = RaRevoke(revoked, call.serial, call.reason)
    /\ UNCHANGED <<requestFrame, usercertificate, raCerts, entries>>

\* reason 6: certificateHold
CERTIFICATE_HOLD == 6

\* the backend takes a certificate that is on hold off hold
RaOffHold(rev, serial) ==
    {r \in rev : ~(r.serial = serial /\ r.reason = CERTIFICATE_HOLD)}

\* cert_remove_hold.execute, lines 994-995: ca_enabled_check(); the command
\* has no revocation reason, the field of the call is left at 0
HoldBegin ==
    /\ call.pc = "idle"
    /\ \E bind \in {Alice, HostH1},
          serial \in 1..(MaxRaCerts + 1),
          cacn \in {"ipa", "sub", "nosuch"} :
        LET c == RevCall("cert_remove_hold", bind, serial, 0, cacn)
        IN  call' = IF ~caEnabled THEN Fail(c, "NotFound")
                    ELSE Goto(c, "r_show")
    /\ UNCHANGED <<requestFrame, usercertificate, raCerts, entries, revoked>>

\* cert_remove_hold.execute, lines 1001-1008: check_access(), then
\* ra.take_certificate_off_hold(serial)
HoldAccess ==
    /\ call.pc = "h_access"
    /\ \E ok \in BOOLEAN :
         LET c == Asked(call, "certificate remove hold", ok)
         IN  IF ~ok
             THEN /\ call' = Fail(c, "ACIError")
                  /\ UNCHANGED revoked
             ELSE /\ call' = Goto([c EXCEPT !.backend = @ \cup
                                     {[fn |-> "take_certificate_off_hold",
                                       serial |-> c.serial]}],
                                  "done")
                  /\ revoked' = RaOffHold(revoked, call.serial)
    /\ UNCHANGED <<requestFrame, usercertificate, raCerts, entries>>

RevokeInit ==
    /\ find = NoCall
    /\ caEnabled \in BOOLEAN
    /\ usercertificate =
           [p \in Principals |->
               IF p = HostH1 THEN <<RaCert(1)>> ELSE << >>]
    /\ raCerts = {RaCert(i) : i \in 1..MaxRaCerts}
    /\ entries = InitialEntries
    /\ revoked = {}
    /\ call = IdleCall

RevokeNext ==
    \/ RevBegin
    \/ RevShow
    \/ RevAccess
    \/ RevReason
    \/ LegRevBegin
    \/ LegRevBackend
    \/ HoldBegin
    \/ HoldAccess
    \/ ReqReturn

RevokeSpec == RevokeInit /\ [][RevokeNext]_vars

\* a call of the current or of the legacy cert_revoke is under way or over
InRevoke == call.pc # "idle" /\ call.op \in {"cert_revoke", "legacy_revoke"}

\* the backend was called to revoke the serial with the reason of the call
RevokeCalled ==
    call.backend = {[fn |-> "revoke_certificate", serial |-> call.serial,
                     reason |-> call.reason]}

\* the certificate exists and was issued by the CA the call names
IssuedByNamedCa ==
    /\ \E c \in raCerts : c.serial = call.serial
    /\ \E ca \in CaObjs :
           /\ ca.cn = call.cacn
           /\ \A c \in raCerts :
                  c.serial = call.serial => c.issuer = ca.ipacasubjectdn

\* the caller is a host and the certificate is the one of that host
OwnCertOfHost ==
    /\ call.bind.service = "host"
    /\ \A c \in raCerts : c.serial = call.serial => c.subject = call.bind.name

\* C16 as stated: cert_revoke with reason 7 never calls the backend's
\* revoke_certificate; with another reason in 0..10, an authorized caller
\* and an existing certificate of the named CA, revoke_certificate is
\* called with that reason.
C16_Reason7NeverRevokes ==
    InRevoke =>
        /\ call.reason = 7 => call.backend = {}
        /\ (call.pc = "done" /\ call.reason # 7
               /\ call.op = "cert_revoke"
               /\ caEnabled /\ IssuedByNamedCa
               /\ (OwnCertOfHost
                      \/ (~Denied("retrieve certificate")
                             /\ ~Denied("revoke certificate"))))
           => RevokeCalled /\ call.error = ""
        /\ (call.pc = "done" /\ call.reason # 7
               /\ call.op = "legacy_revoke"
               /\ Granted("revoke certificate"))
           => RevokeCalled /\ call.error = ""

\* C16 (amended): that holds of the current cert_revoke, where an authorized
\* caller is one that may retrieve and revoke certificates or is the host
\* of the certificate.  The legacy cert_revoke passes every reason in
\* 0..10, 7 included, to revoke_certificate for a caller that holds the
\* permission.
C16_Reason7CurrentOnly ==
    InRevoke =>
        /\ (call.op = "cert_revoke" /\ call.reason = 7) => call.backend = {}
        /\ (call.pc = "done"
               /\ call.op = "cert_revoke" /\ call.reason # 7
               /\ caEnabled /\ IssuedByNamedCa
               /\ (OwnCertOfHost
                      \/ (~Denied("retrieve certificate")
                             /\ ~Denied("revoke certificate"))))
           => RevokeCalled /\ call.error = ""
        /\ (call.pc = "done"
               /\ call.op = "legacy_revoke"
               /\ Granted("revoke certificate"))
           => RevokeCalled /\ call.error = ""
        /\ call.backend # {} =>
               /\ RevokeCalled
               /\ call.op = "cert_revoke" => call.reason # 7

\* an authorized user asked for serial 1 of the IPA CA to be revoked with
\* reason 7 and was refused
C16_Witness ==
    /\ InRevoke /\ call.op = "cert_revoke" /\ call.pc = "done"
    /\ call.reason = 7 /\ call.serial = 1 /\ call.cacn = "ipa"
    /\ Granted("retrieve certificate") /\ Granted("revoke certificate")
    /\ call.error = "CertificateOperationError"
    /\ call.backend = {} /\ revoked = {}

(***************************************************************************)
(* The add option                                                          *)
(***************************************************************************)
\* the call got as far as the lookup of the principal
ReachedLookup ==
    /\ InRequest
    /\ call.pc \notin {"begin", "bind", "caacl", "csr", "lookup"}
    /\ ~(Done /\ call.at \in {"begin", "bind", "caacl", "csr"})

AddForUserOrHost == call.add /\ call.principal.service \in {"", "host"}

\* C17 as stated: a cert_request with add=true for a User or Host principal
\* (that gets as far as the lookup of the principal) is rejected with
\* OperationNotSupportedForPrincipalType, creates no entry and issues no
\* certificate; only a missing Service principal is created.
C17_AddRejectedForUserOrHost ==
    /\ (ReachedLookup /\ AddForUserOrHost)
       => /\ Done
          /\ call.error = "OperationNotSupportedForPrincipalType"
          /\ call.created = {} /\ call.issued = {}
    /\ InRequest =>
          \A p \in call.created : p.service \notin {"", "host"}

\* C17 (amended): the request is rejected so when the User or Host
\* principal has no entry.  When the entry exists the add option is
\* ignored and the request goes on to the other checks.  Only a missing
\* Service principal is created, and only with add=true.
C17_AddRejectedForMissingUserOrHost ==
    /\ (ReachedLookup /\ AddForUserOrHost /\ call.principal \notin entries)
       => /\ Done
          /\ call.error = "OperationNotSupportedForPrincipalType"
          /\ call.at = "lookup"
          /\ call.created = {} /\ call.issued = {}
    /\ (ReachedLookup /\ AddForUserOrHost /\ call.principal \in entries)
       => /\ call.error # "OperationNotSupportedForPrincipalType"
          /\ call.at # "lookup"
          /\ call.created = {}
    /\ InRequest =>
          \A p \in call.created :
              /\ p.service \notin {"", "host"}
              /\ p = call.principal /\ call.add

\* an authorized user asked for host h3, which has no entry, to be added
C17_Witness ==
    /\ ReachedLookup /\ AddForUserOrHost
    /\ call.bind = Alice /\ call.principal = HostH3
    /\ Granted("request certificate")
    /\ call.error = "OperationNotSupportedForPrincipalType"
    /\ HostH3 \notin entries

(***************************************************************************)
(* Failures of the CA backend, and the store-issued flag of the profile    *)
(***************************************************************************)
\* C18: when request_certificate fails with HTTP status 409 cert_request
\* fails with CertificateOperationError (the CA is disabled); a failure
\* with another status is raised again as it is; in both cases nothing is
\* written to the entry of the principal.
C18_ConflictMeansCaDisabled ==
    (InRequest /\ Done /\ call.at = "issue")
    => /\ call.status # 0
       /\ call.status = 409 => call.error = "CertificateOperationError"
       /\ call.status # 409 => call.error = "HTTPRequestError"
       /\ call.issued = {} /\ ~call.stored /\ call.mods = {}
       /\ usercertificate = call.before

\* the backend answered 409 to a request for host h1, whose entry caches a
\* certificate
C18_Witness ==
    /\ InRequest /\ Done /\ call.at = "issue"
    /\ call.status = 409 /\ call.error = "CertificateOperationError"
    /\ call.principal = HostH1
    /\ usercertificate[HostH1] # << >>

\* C19: after a certificate is issued cert_request writes to the entry of
\* the principal only if ipacertprofilestoreissued of the profile is TRUE;
\* otherwise the entry is left as it was.  The write adds the certificate
\* to the usercertificate values of the entry and hands no other attribute
\* to the directory; the values the entry had, and the other entries, are
\* left as they were.
C19_StoreOnlyIfProfileSays ==
    InRequest =>
        /\ (Done /\ call.error = "") =>
               /\ call.issued # {}
               /\ call.stored <=> call.storeflag = {TRUE}
        /\ ~call.stored =>
               /\ usercertificate = call.before
               /\ call.mods = {}
        /\ call.stored =>
               /\ call.mods = {[attr |-> "usercertificate",
                                how  |-> "addattr"]}
               /\ usercertificate =
                      [call.before EXCEPT ![call.principal] =
                          Append(@, ValueOf(call.issued))]

\* a certificate was issued for host h1 and the profile said not to store
C19_Witness ==
    /\ InRequest /\ Done /\ call.error = ""
    /\ call.principal = HostH1 /\ call.issued # {}
    /\ call.storeflag = {FALSE} /\ ~call.stored
    /\ usercertificate[HostH1] = <<RaCert(1)>>

(***************************************************************************)
(* cert_find with an inline certificate that does not decode               *)
(***************************************************************************)
\* a call of cert_find with such a certificate is over
UndecodableGiven ==
    /\ find.state \in {"returned", "raised"}
    /\ find.opts.certificate # {}
    /\ \A c \in find.opts.certificate : ~c.valid

\* the call names a CA that does not exist
FindUnknownCa ==
    /\ find.opts.cacn # {}
    /\ \A cn \in find.opts.cacn : \A ca \in CaObjs : ca.cn # cn

\* the call names a CA and an issuer that is not the subject of that CA
FindIssuerMismatch ==
    /\ find.opts.cacn # {} /\ find.opts.issuer # {}
    /\ \E ca \in CaObjs :
           /\ ca.cn \in find.opts.cacn
           /\ ca.ipacasubjectdn \notin find.opts.issuer

\* the call gives a criterion for the search of the CA backend, the size
\* limit aside
FindRaCriteria ==
    \/ ~NoRaFilterGiven(find.opts)
    \/ find.opts.exactly

SanTypes == {"DNSName", "KRB5PrincipalName", "UPN", "RFC822Name"}

\* the rule of its type holds of a general name of the request
SanTypeRule(gn) ==
    /\ gn.type \in SanTypes
    /\ gn.type \in {"KRB5PrincipalName", "UPN"} =>
           gn.name = <<call.principal.service, call.principal.name, "REALM">>
    /\ gn.type = "RFC822Name" =>
           /\ call.principal.service = ""
           /\ gn.value \in Mail(call.principal)
    /\ gn.type = "DNSName" => call.principal.service # ""

\* C21: cert_request issues a certificate only if every general name of
\* the request satisfies the rule of its type; a name of any other type
\* denies the request whatever the permissions of the caller, the CA ACL
\* bypass included.
C21_SanTypeRules ==
    InRequest =>
        /\ call.issued # {} =>
               \A j \in 1..Len(call.csr.san) : SanTypeRule(call.csr.san[j])
        /\ (\E j \in 1..Len(call.csr.san) :
                call.csr.san[j].type \notin SanTypes)
           => /\ call.issued = {} /\ ~call.stored
              /\ Done => call.error # ""

\* a request with an IPAddress was denied to a caller with the bypass
\* permission, after every other check had passed
C21_Witness ==
    /\ InRequest /\ Done /\ call.bypass
    /\ \E j \in 1..Len(call.csr.san) : call.csr.san[j].type = "IPAddress"
    /\ Writable(call.principal)
    /\ call.error = "ACIError" /\ call.at = "san"

\* the Common Name at position n of the subject is the name of the
\* principal: the username as it is, the hostname whatever the case
CnMatches(n) ==
    IF call.principal.service = ""
    THEN call.csr.cns[n] = call.principal.name
    ELSE Lower(call.csr.cns[n]) = Lower(call.principal.name)

\* C22 as stated: cert_request issues a certificate only if the last Common
\* Name of the request matches the principal, and a request without a
\* Common Name is rejected.
C22_LastCnMatches ==
    InAnyRequest =>
        /\ call.issued # {} =>
               /\ Len(call.csr.cns) > 0
               /\ CnMatches(Len(call.csr.cns))
        /\ (Done /\ Len(call.csr.cns) = 0) => call.error # ""

\* C22 (amended): that holds of the current cert_request.  The legacy
\* cert_request compares the first Common Name of the subject, whatever the
\* case, with the hostname of the principal; it too fails for a request
\* without a Common Name.
C22_LastCnCurrentFirstCnLegacy ==
    InAnyRequest =>
        /\ call.issued # {} =>
               /\ Len(call.csr.cns) > 0
               /\ call.op = "cert_request" => CnMatches(Len(call.csr.cns))
               /\ call.op = "legacy" =>
                      Lower(call.csr.cns[1]) = Lower(call.principal.name)
        /\ (Done /\ Len(call.csr.cns) = 0) =>
               call.error # "" /\ call.issued = {}

\* host h1 was issued a certificate for a request whose only Common Name is
\* H1
C22_Witness ==
    /\ InRequest /\ call.issued # {}
    /\ call.principal = HostH1
    /\ call.csr.cns = <<"H1">>

(***************************************************************************)
(* The kinds of error                                                      *)
(***************************************************************************)
\* the request did not load
DecodeFailed == InRequest /\ Done /\ call.at = "csr" /\ ~call.csr.valid

\* the backend answered that the CA is disabled
CaDisabled == InRequest /\ Done /\ call.at = "issue" /\ call.status = 409

\* the request loaded and its subject or a general name was refused
SemanticallyInvalid ==
    InRequest /\ Done /\ call.error # "" /\ call.at \in {"subject", "san"}

\* C23 as stated: a request that cannot be decoded fails with the error
\* kind DecodeError, a kind that is neither the one of a semantically
\* invalid request nor the one of a failure of the backend such as a
\* disabled CA.
C23_DecodeErrorDistinct ==
    /\ DecodeFailed =>
           /\ call.error = "DecodeError"
           /\ call.error \notin {"ValidationError", "ACIError", "NotFound",
                                 "CertificateOperationError"}
    /\ CaDisabled => call.error # "DecodeError"

\* C23 (amended): a request that cannot be decoded fails with
\* CertificateOperationError, the kind also raised when the backend
\* answers that the CA is disabled; that kind is distinct from the kinds
\* raised for a request that loads and is semantically invalid
\* (ValidationError, ACIError, NotFound).
C23_DecodeIsOperationError ==
    /\ DecodeFailed => call.error = "CertificateOperationError"
    /\ CaDisabled => call.error = "CertificateOperationError"
    /\ SemanticallyInvalid =>
           call.error \in {"ValidationError", "ACIError", "NotFound"}
    /\ (InRequest /\ Done /\ call.error = "CertificateOperationError")
           => DecodeFailed \/ CaDisabled

\* a caller that passed the permission and CA ACL checks sent a request
\* that does not load
C23_Witness ==
    /\ DecodeFailed
    /\ call.bind = Alice /\ call.principal = HostH1
    /\ Granted("request certificate") /\ AclTrue(HostH1)
    /\ call.error = "CertificateOperationError"

(***************************************************************************)
(* normalize_csr of the legacy plugin                                      *)
(***************************************************************************)
\* number of pieces of the text handed to normalize_csr
MaxCsrLen == 4

BEGIN_NEW == "-----BEGIN NEW CERTIFICATE REQUEST-----"

BEGIN_STD == "-----BEGIN CERTIFICATE REQUEST-----"

END_NEW == "-----END NEW CERTIFICATE REQUEST-----"

END_STD == "-----END CERTIFICATE REQUEST-----"

\* a text is a sequence of pieces: a marker, or one character "x" that
\* belongs to no marker
Pieces == {BEGIN_NEW, BEGIN_STD, END_NEW, END_STD, "x"}

\* len() of a piece; a piece left over by a slice that cuts a marker counts
\* as one character
PieceLen(t) ==
    CASE t = BEGIN_NEW -> 39
      [] t = BEGIN_STD -> 35
      [] t = END_NEW -> 37
      [] t = END_STD -> 33
      [] OTHER -> 1

\* the character offset at which piece i starts
RECURSIVE PieceOffset(_, _)
PieceOffset(csr, i) ==
    IF i = 1 THEN 0 ELSE PieceOffset(csr, i - 1) + PieceLen(csr[i - 1])

\* str.find: the offset of the first occurrence, -1 when there is none
StrFind(csr, marker) ==
    IF \E i \in 1..Len(csr) : csr[i] = marker
    THEN PieceOffset(csr,
             CHOOSE i \in 1..Len(csr) :
                 /\ csr[i] = marker
                 /\ \A k \in 1..(i - 1) : csr[k] # marker)
    ELSE -1

\* csr[a:b] for 0 <= a: the pieces inside the offsets; a piece the slice
\* cuts leaves the piece "cut"
RECURSIVE StrSlice(_, _, _, _)
StrSlice(csr, a, b, i) ==
    IF i > Len(csr) THEN << >>
    ELSE LET lo == PieceOffset(csr, i)
             hi == lo + PieceLen(csr[i])
             here == IF lo >= a /\ hi <= b THEN <<csr[i]>>
                     ELSE IF hi <= a \/ lo >= b THEN << >>
                     ELSE <<"cut">>
         IN  here \o StrSlice(csr, a, b, i + 1)

\* mutant: the length of the END NEW marker is used for both END markers
NormalizeCsrOneEndLen(csr) ==
    LET s1 == StrFind(csr, BEGIN_NEW)
        s == IF s1 = -1 THEN StrFind(csr, BEGIN_STD) ELSE s1
        e1 == StrFind(csr, END_NEW)
        e == IF e1 = -1 THEN StrFind(csr, END_STD) ELSE e1
    IN  IF s > -1 /\ e > -1 THEN StrSlice(csr, s, e + 37, 1) ELSE csr

\* lines 130-148
NormalizeCsr(csr) ==
    LET s1 == StrFind(csr, BEGIN_NEW)
        s == IF s1 = -1 THEN StrFind(csr, BEGIN_STD) ELSE s1
        e1 == StrFind(csr, END_NEW)
        e == IF e1 = -1 THEN StrFind(csr, END_STD) ELSE e1
        end_len == IF e1 = -1 /\ e # -1 THEN 33 ELSE 37
    IN  IF s > -1 /\ e > -1 THEN StrSlice(csr, s, e + end_len, 1) ELSE csr

\* the texts normalize_csr is given
CsrTexts == UNION {[1..n -> Pieces] : n \in 0..MaxCsrLen}

NormInit ==
    /\ find = NoCall
    /\ caEnabled = TRUE
    /\ usercertificate = [p \in {} |-> << >>]
    /\ raCerts = {}
    /\ entries = {}
    /\ revoked = {}
    /\ \E csr \in CsrTexts :
           call = [pc |-> "given", op |-> "normalize_csr", csr |-> csr,
                   out |-> << >>, again |-> << >>]

\* the normalizer of the csr argument runs
NormOnce ==
    /\ call.pc = "given"
    /\ call' = [call EXCEPT !.pc = "once", !.out = NormalizeCsr(call.csr)]
    /\ UNCHANGED <<find, caEnabled, usercertificate, raCerts, entries, revoked>>

\* its result is normalized again
NormTwice ==
    /\ call.pc = "once"
    /\ call' = [call EXCEPT !.pc = "twice", !.again = NormalizeCsr(call.out)]
    /\ UNCHANGED <<find, caEnabled, usercertificate, raCerts, entries, revoked>>

NormNext == NormOnce \/ NormTwice

NormSpec == NormInit /\ [][NormNext]_vars

\* pieces i..j of the text are a BEGIN marker, text without a marker and the
\* END marker of the same pair
IsBlock(csr, i, j) ==
    /\ i < j
    /\ \/ csr[i] = BEGIN_NEW /\ csr[j] = END_NEW
       \/ csr[i] = BEGIN_STD /\ csr[j] = END_STD
    /\ \A k \in (i + 1)..(j - 1) : csr[k] = "x"

Blocks(csr) ==
    {b \in (1..Len(csr)) \X (1..Len(csr)) : IsBlock(csr, b[1], b[2])}

\* no marker stands before piece i or after piece j
NoMarkerOutside(csr, i, j) ==
    \A k \in 1..Len(csr) : (k < i \/ k > j) => csr[k] = "x"

\* C24 as stated: of a text that contains one correctly delimited block
\* among arbitrary leading and trailing text, normalize_csr returns exactly
\* the block, and normalizing the result again changes nothing.
C24_ExtractsBlockIdempotent ==
    (call.pc # "given" /\ Cardinality(Blocks(call.csr)) = 1) =>
        /\ \A b \in Blocks(call.csr) :
               call.out = SubSeq(call.csr, b[1], b[2])
        /\ call.pc = "twice" => call.again = call.out

\* C24 (amended): of a text that contains one correctly delimited block and
\* no BEGIN or END marker in its leading and trailing text, normalize_csr
\* returns exactly the block; and of every text, normalizing the result
\* again changes nothing.
C24_ExtractsBlockNoStrayMarker ==
    /\ call.pc # "given" =>
           \A b \in Blocks(call.csr) :
               NoMarkerOutside(call.csr, b[1], b[2]) =>
                   call.out = SubSeq(call.csr, b[1], b[2])
    /\ call.pc = "twice" => call.again = call.out

\* a standard block between leading and trailing text was extracted and
\* normalized again
C24_Witness ==
    /\ call.pc = "twice"
    /\ call.csr = <<"x", BEGIN_STD, END_STD, "x">>
    /\ call.out = <<BEGIN_STD, END_STD>>
    /\ call.again = call.out

(***************************************************************************)
(* The size limit of the sub-searches of cert_find                         *)
(***************************************************************************)
\* the sub-searches a finished call invoked, by position: those that
\* returned and the one that raised
InvokedSubs ==
    IF find.state = "returned" THEN 1..Len(find.subs)
    ELSE IF find.state = "raised" /\ Len(find.accs) > Len(find.subs)
    THEN 1..(Len(find.subs) + 1)
    ELSE {}

\* the size limit sub-search i was invoked with
LimitGiven(i) == find.accs[i].sizelimit

\* a sub-search before sub-search i reported complete
EarlierComplete(i) == \E j \in 1..(i - 1) : find.subs[j].complete

\* C25 as stated: a sub-search is invoked without a size limit if and only
\* if an earlier sub-search of the call reported complete; a sub-search run
\* before the first complete one receives the caller's size limit.
C25_NoLimitIffEarlierComplete ==
    find.state \in {"returned", "raised"} =>
        \A i \in InvokedSubs :
            /\ LimitGiven(i) = NoLimit <=> EarlierComplete(i)
            /\ ~EarlierComplete(i) => LimitGiven(i) = find.opts.sizelimit

\* C25 (amended): a sub-search is invoked without a size limit if and only
\* if an earlier sub-search of the call reported complete or the caller
\* gave no size limit; a sub-search run before the first complete one
\* receives what the caller gave as size limit.
C25_NoLimitIffEarlierCompleteOrNoneGiven ==
    find.state \in {"returned", "raised"} =>
        \A i \in InvokedSubs :
            /\ LimitGiven(i) = NoLimit <=>
                   (EarlierComplete(i) \/ find.opts.sizelimit = NoLimit)
            /\ ~EarlierComplete(i) => LimitGiven(i) = find.opts.sizelimit

\* a call with size limit 1 whose backend sub-search was the first to
\* report complete: the first two sub-searches got the limit, the third none
C25_Witness ==
    /\ find.state = "returned" /\ Len(find.subs) = 3
    /\ find.opts.sizelimit = 1
    /\ ~find.subs[1].complete /\ find.subs[2].complete
    /\ LimitGiven(1) = 1 /\ LimitGiven(2) = 1 /\ LimitGiven(3) = NoLimit

(***************************************************************************)
(* The complete flag of the backend sub-search                             *)
(***************************************************************************)
\* the call carries a filter of the CA backend: a revocation reason, an
\* issuer (given as such or through the cacn option), a subject, a bound
\* on the serial number or on a date
CaFilterSupplied ==
    \/ Supplied(find.opts.issuer) \/ Supplied(find.opts.cacn)
    \/ Supplied(find.opts.subject)
    \/ Supplied(find.opts.min_serial_number)
    \/ Supplied(find.opts.max_serial_number)
    \/ Supplied(find.opts.others)

\* _ca_search ran to its end
CaSearchReturned == find.state = "returned" /\ Len(find.subs) = 3

\* _ca_search raised NotFound for a CA that is not configured
CaSearchRaised ==
    find.state = "raised" /\ Len(find.subs) = 1 /\ Len(find.accs) = 2

\* C26 as stated: _ca_search reports complete if and only if a CA-specific
\* filter was supplied, whatever the size limit and the exactly flag.
C26_CompleteIffCaFilter ==
    CaSearchReturned => (find.subs[2].complete <=> CaFilterSupplied)

\* C26 (amended): _ca_search reports complete if and only if a CA-specific
\* filter, the exactly flag or a non-zero size limit reached it; with one
\* of them and no CA configured it raises instead.
C26_CompleteIffAnyBackendOption ==
    /\ CaSearchReturned =>
           (find.subs[2].complete <=>
                \/ CaFilterSupplied
                \/ find.opts.exactly
                \/ find.accs[2].sizelimit \notin {NoLimit, 0})
    /\ CaSearchRaised =>
           \/ CaFilterSupplied
           \/ find.opts.exactly
           \/ find.accs[2].sizelimit \notin {NoLimit, 0}

\* a call with a size limit and no filter: the backend sub-search reports
\* complete
C26_Witness ==
    /\ CaSearchReturned
    /\ ~CaFilterSupplied /\ ~find.opts.exactly
    /\ ~Supplied(find.opts.certificate)
    /\ find.opts.sizelimit = 1
    /\ find.subs[2].complete

(***************************************************************************)
(* The write permission on the entries of the alternative names            *)
(***************************************************************************)
\* can_write was denied on the entry of p
WriteDenied(p) == [principal |-> p, ok |-> FALSE] \in call.canwrite

\* C27: a certificate for a host or service request with DNSNames is issued
\* only if the caller may write usercertificate of the principal's entry
\* and of the entry of every DNSName; a denial raises ACIError and nothing
\* is issued.
C27_AliasWritePermission ==
    /\ Issued =>
           /\ [principal |-> call.principal, ok |-> TRUE] \in call.canwrite
           /\ \A j \in 1..Len(call.csr.san) :
                  call.csr.san[j].type = "DNSName" =>
                      [principal |-> SanEntry(j), ok |-> TRUE]
                          \in call.canwrite
    /\ (InRequest /\ \E w \in call.canwrite : ~w.ok) =>
           /\ call.pc = "done" /\ call.error = "ACIError"
           /\ call.issued = {} /\ ~call.stored
           /\ usercertificate = call.before

\* the caller may write the entry of host h1 and not the entry of host h2,
\* the DNSName of the request
C27_Witness ==
    /\ InRequest /\ call.pc = "done"
    /\ call.principal = HostH1
    /\ Writable(HostH1) /\ WriteDenied(HostH2)
    /\ call.error = "ACIError" /\ call.at = "san"
    /\ call.issued = {}

(***************************************************************************)
(* The service entry added by a request                                    *)
(***************************************************************************)
\* the call added the entry of its principal
AddedService == InRequest /\ call.created # {}

\* a check that follows the lookup, or the CA backend, failed
FailedAfterLookup ==
    /\ call.pc = "done" /\ call.error # ""
    /\ call.at \in {"subject", "write", "san", "issue"}

\* C28: with add=true for a service without an entry, the entry is created
\* before the Common Name check, the write-permission check and the
\* validation of the alternative names; when one of them or the CA backend
\* fails, the request fails and the entry stays in the directory.
C28_ServiceAddedNoRollback ==
    /\ AddedService =>
           /\ call.created = {call.principal}
           /\ call.add /\ call.principal.service \notin {"", "host"}
           /\ call.principal \notin InitialEntries
           /\ call.principal \in entries
    /\ (AddedService /\ call.pc = "subject") =>
           /\ call.canwrite = {} /\ call.i = 1
           /\ call.issued = {} /\ call.error = ""
    /\ (InRequest /\ call.add /\ call.principal.service \notin {"", "host"}
        /\ FailedAfterLookup) =>
           call.principal \in entries

\* the service http/h1 had no entry, add was given, and the request failed
\* at the write-permission check: the entry is in the directory
C28_Witness ==
    /\ AddedService /\ FailedAfterLookup
    /\ call.principal = HttpH1 /\ call.at = "write"
    /\ call.error = "ACIError"
    /\ HttpH1 \in entries

(***************************************************************************)
(* The legacy request revokes and clears before it asks for a certificate  *)
(***************************************************************************)
\* a legacy request for a principal whose entry cached a certificate
LegacyCached ==
    /\ call.pc # "idle" /\ call.op = "legacy"
    /\ call.before[call.principal] # << >>

\* the serial of the certificate the entry cached
CachedSerial == call.before[call.principal][1].serial

\* request_certificate is about to be called, or was called and failed
AtRequestCertificate ==
    \/ call.pc = "l_issue"
    \/ call.pc = "done" /\ call.error # "" /\ call.at = "l_issue"

\* C29: in the legacy cert_request, the certificate the entry caches is
\* revoked with reason 4 (unless it was revoked already or the backend does
\* not implement the lookup or the revocation) and usercertificate is
\* cleared before request_certificate is called; when request_certificate
\* fails the entry has no certificate and the old one stays revoked.
C29_RevokedAndClearedBeforeRequest ==
    (LegacyCached /\ AtRequestCertificate) =>
        /\ usercertificate[call.principal] = << >>
        /\ call.issued = {} /\ ~call.stored
        /\ \/ [serial |-> CachedSerial, reason |-> 4] \in revoked
           \/ CachedSerial \in {r.serial : r \in call.revbefore}
           \/ call.tolerated
        /\ call.revbefore \subseteq revoked

\* request_certificate failed after the cached certificate of host h1 was
\* revoked and removed from the entry
C29_Witness ==
    /\ LegacyCached
    /\ call.pc = "done" /\ call.at = "l_issue"
    /\ call.error = "HTTPRequestError"
    /\ call.principal = HostH1
    /\ usercertificate[HostH1] = << >>
    /\ CachedSerial \in call.revokes
    /\ [serial |-> CachedSerial, reason |-> 4] \in revoked

(***************************************************************************)
(* What guards the calls of the CA backend that revoke and release         *)
(***************************************************************************)
\* the current cert_revoke called revoke_certificate
RevokeReached ==
    /\ call.pc # "idle" /\ call.op = "cert_revoke"
    /\ call.backend # {}

\* cert_remove_hold called take_certificate_off_hold
OffHoldReached ==
    /\ call.pc # "idle" /\ call.op = "cert_remove_hold"
    /\ call.backend # {}

\* C30: cert_revoke calls revoke_certificate only if a certificate with the
\* serial exists, its issuer is the subject of the named CA, and the caller
\* holds 'revoke certificate' or is the host the certificate's subject
\* Common Name names; cert_remove_hold calls take_certificate_off_hold only
\* if the certificate exists and its issuer is the subject of the named CA.
C30_BackendCallsGuarded ==
    /\ RevokeReached =>
           /\ call.backend = {[fn |-> "revoke_certificate",
                               serial |-> call.serial,
                               reason |-> call.reason]}
           /\ IssuedByNamedCa
           /\ [op |-> "revoke certificate", ok |-> TRUE] \in call.access
                  \/ OwnCertOfHost
    /\ OffHoldReached =>
           /\ call.backend = {[fn |-> "take_certificate_off_hold",
                               serial |-> call.serial]}
           /\ IssuedByNamedCa

\* host h1, without the permission to revoke, revoked its own certificate
C30_Witness ==
    /\ RevokeReached /\ call.pc = "done" /\ call.error = ""
    /\ call.bind = HostH1 /\ call.serial = 1 /\ call.cacn = "ipa"
    /\ [op |-> "revoke certificate", ok |-> FALSE] \in call.access
    /\ \E r \in revoked : r.serial = 1

====
